---- MODULE Spec2Model ----
(***************************************************************************)
(* Model of the iCal -> Roam synchronisation extension.                    *)
(*                                                                         *)
(*   index.ts   (syncCalendars, the in-progress guard)                     *)
(*   ical.ts    (fetchAllCalendars, filters, sorting, hashEventId)         *)
(*   blocks.ts  (writeBlocks, writeBlocksToPage, syncChildren, sweeps)     *)
(*   settings.ts (the store helpers wrapping roamAlphaAPI)                 *)
(*                                                                         *)
(* Strings of the program are modelled as TLA+ strings; a block text is a  *)
(* sequence of tokens: a headline is <<prefix, day, title, tag>>, a        *)
(* property line `key:: value` is <<key, value>>.  Instants are integers,  *)
(* TicksPerDay of them per calendar day.  A block's uid is its position in *)
(* the children list of its parent (positions are stable between the read  *)
(* of a tree and the deletions that end a reconciliation).                 *)
(***************************************************************************)
EXTENDS Integers, Sequences, FiniteSets, TLC

(***************************************************************************)
(* Program constants                                                       *)
(***************************************************************************)
DEFAULT_PAGE_PREFIX == "ical"
DEFAULT_TITLE_PREFIX == "#gcal"
ICAL_ID_PROPERTY == "ical-id"
ICAL_DESC_PROPERTY == "ical-desc"
ICAL_LOCATION_PROPERTY == "ical-location"
ICAL_URL_PROPERTY == "ical-url"
ICAL_MEETING_URL_PROPERTY == "ical-meeting-url"
ICAL_END_PROPERTY == "ical-end"

(***************************************************************************)
(* Bounds and input domains                                                *)
(***************************************************************************)
NumInvocations == 2
MaxBatchSize == 2
TicksPerDay == 2
Today == 2
SyncDaysPast == 1
SyncDaysFuture == 1
MaxFetches == 3
MaxRuns == 2
MaxLen == 3

Invocations == 1..NumInvocations
BatchSizes == 1..MaxBatchSize

Null == "null"
NoDate == 0 - 1
NoDateText == 0 - 1

\* an ICalEvent (ical.ts, interface ICalEvent)
Event(uid, dtstart, dtend, summary, location) ==
    [uid |-> uid, dtstart |-> dtstart, dtend |-> dtend, summary |-> summary,
     description |-> Null, location |-> location, url |-> Null,
     meetingUrl |-> Null]

EvA1 == Event("a", 4, NoDate, "Standup", Null)
EvA2 == Event("a", 6, NoDate, "Standup", Null)
EvAmoved == Event("a", 4, NoDate, "Standup (moved)", Null)
EvB == Event("b", 5, 7, "Review", Null)
EvBusy == Event("b", 4, NoDate, "Busy", Null)
EvOld == Event("b", 1, NoDate, "Review", Null)

CalWork == [name |-> "Work", url |-> "https://w"]
CalHome == [name |-> "Home", url |-> "https://h"]

\* the contents the feed at a url may serve
Feeds(url) ==
    IF url = CalWork.url
    THEN { <<EvBusy, EvOld>>, <<EvA1, EvA2>>, <<EvAmoved>>, <<EvB>> }
    ELSE { <<EvA1>> }

\* the values of the `calendars` setting
CalendarSettings == { <<>>, <<CalWork, CalHome>> }

\* the exclude patterns of the settings: titles matched by DEFAULT_EXCLUDE_PATTERNS
ExcludePatterns == <<"^Busy$">>

(***************************************************************************)
(* ical.ts: identity and naming                                            *)
(***************************************************************************)
\* str.charCodeAt(i) for the strings the model hashes
CharCodes(str) ==
    CASE str = "a" -> <<97>>
      [] str = "b" -> <<98>>
      [] str = "_salt" -> <<95, 115, 97, 108, 116>>
      [] str = "n" -> <<110>>
      [] str = "x" -> <<120>>
      [] str = "!" -> <<33>>
      [] OTHER -> <<>>

RECURSIVE XorBits(_, _, _)
\* bitwise exclusive or of the n low bits of x and y
XorBits(x, y, n) ==
    IF n = 0 THEN 0
    ELSE (((x % 2) + (y % 2)) % 2) + 2 * XorBits(x \div 2, y \div 2, n - 1)

\* an unsigned 32-bit word is kept as <<high 16 bits, low 16 bits>>
FNV_OFFSET == <<33052, 40389>>

\* a step that multiplies before it mixes the character in (FNV-1 instead of FNV-1a)
FnvStepMultipliesFirst(hash, c) ==
    LET p == hash[2] * 403
        hi == (hash[1] * 403 + (p \div 65536) + (hash[2] % 256) * 256) % 65536
    IN  << hi, XorBits(p % 65536, c, 16) >>

\* hash ^= c ; hash = Math.imul(hash, 0x01000193), modulo 2^32
FnvStep(hash, c) ==
    LET lo == XorBits(hash[2], c, 16)
        hi == hash[1]
        p == lo * 403
    IN  << (hi * 403 + (p \div 65536) + (lo % 256) * 256) % 65536, p % 65536 >>

RECURSIVE FnvFold(_, _)
FnvFold(hash, codes) ==
    IF codes = <<>> THEN hash ELSE FnvFold(FnvStep(hash, Head(codes)), Tail(codes))

fnv1aHash(codes) == FnvFold(FNV_OFFSET, codes)

RECURSIVE ToBase36(_)
\* Number.prototype.toString(36), as the sequence of its digits
ToBase36(w) ==
    LET t == (w[1] % 36) * 65536 + w[2]
        q == << w[1] \div 36, t \div 36 >>
    IN  IF q = <<0, 0>> THEN << t % 36 >> ELSE Append(ToBase36(q), t % 36)

\* hashEventId on the UTF-16 code units of uid: part1 and part2, then `${part1}${part2}`
hashEventIdParts(codes) ==
    [part1 |-> ToBase36(fnv1aHash(codes)),
     part2 |-> ToBase36(fnv1aHash(codes \o CharCodes("_salt")))]

hashEventId(uid) ==
    hashEventIdParts(CharCodes(uid)).part1 \o hashEventIdParts(CharCodes(uid)).part2

sanitizeEventId(uid) == hashEventId(uid)

\* `${pagePrefix}/${calendarName}/${sanitizedId}`, kept as its three segments
resolveEventPageName(event, calendarName, pagePrefix) ==
    << pagePrefix, calendarName, sanitizeEventId(event.uid) >>

\* a prefix test that every title passes
StartsWithAnything(title, pagePrefix) == TRUE

\* title.startsWith(`${pagePrefix}/`)
StartsWithPrefix(title, pagePrefix) == Len(title) >= 2 /\ title[1] = pagePrefix

(***************************************************************************)
(* ical.ts: filters and ordering                                           *)
(***************************************************************************)
\* pattern.test(title) for the patterns of the model (case-insensitive)
RegexTest(pattern, title) ==
    \/ pattern = "^Busy$" /\ title \in {"Busy", "busy", "BUSY"}
    \/ pattern = "^$" /\ title = ""
    \/ pattern = ".*"

shouldExcludeEvent(title, patterns) ==
    IF title = Null \/ title = "" \/ Len(patterns) = 0 THEN FALSE
    ELSE \E k \in 1..Len(patterns) : RegexTest(patterns[k], title)

filterExcludedEvents(events, excludePatterns) ==
    IF Len(excludePatterns) = 0 THEN events
    ELSE SelectSeq(events, LAMBDA e : ~shouldExcludeEvent(e.summary, excludePatterns))

\* event.dtstart ?? event.dtend
EffectiveDate(event) == IF event.dtstart # NoDate THEN event.dtstart ELSE event.dtend

\* a window whose upper boundary is the start of day +daysFuture
isEventInDateRangeShortWindow(event, daysPast, daysFuture) ==
    LET eventDate == EffectiveDate(event)
        startOfToday == Today * TicksPerDay
        pastBoundary == startOfToday - daysPast * TicksPerDay
        futureBoundary == startOfToday + daysFuture * TicksPerDay
    IN  IF eventDate = NoDate THEN FALSE
        ELSE eventDate >= pastBoundary /\ eventDate < futureBoundary

isEventInDateRange(event, daysPast, daysFuture) ==
    LET eventDate == EffectiveDate(event)
        startOfToday == Today * TicksPerDay
        pastBoundary == startOfToday - daysPast * TicksPerDay
        futureBoundary == startOfToday + (daysFuture + 1) * TicksPerDay
    IN  IF eventDate = NoDate THEN FALSE
        ELSE eventDate >= pastBoundary /\ eventDate < futureBoundary

filterEventsByDateRange(events, daysPast, daysFuture) ==
    SelectSeq(events, LAMBDA e : isEventInDateRange(e, daysPast, daysFuture))

getEventSortDate(event) == EffectiveDate(event)

\* a comparator that puts the oldest event first
CompareEventsAscending(a, b) ==
    LET dateA == getEventSortDate(a)
        dateB == getEventSortDate(b)
    IN  IF dateA = NoDate /\ dateB = NoDate THEN 0
        ELSE IF dateA = NoDate THEN 1
        ELSE IF dateB = NoDate THEN 0 - 1
        ELSE dateA - dateB

\* the comparator of sortEventsByDateDescending
CompareEvents(a, b) ==
    LET dateA == getEventSortDate(a)
        dateB == getEventSortDate(b)
    IN  IF dateA = NoDate /\ dateB = NoDate THEN 0
        ELSE IF dateA = NoDate THEN 1
        ELSE IF dateB = NoDate THEN 0 - 1
        ELSE dateB - dateA

RECURSIVE InsertEvent(_, _)
InsertEvent(sorted, e) ==
    IF sorted = <<>> THEN << e >>
    ELSE IF CompareEvents(Head(sorted), e) <= 0
         THEN << Head(sorted) >> \o InsertEvent(Tail(sorted), e)
         ELSE << e >> \o sorted

RECURSIVE SortFrom(_, _)
SortFrom(sorted, rest) ==
    IF rest = <<>> THEN sorted ELSE SortFrom(InsertEvent(sorted, Head(rest)), Tail(rest))

\* [...events].sort(cmp): Array.prototype.sort is stable
sortEventsByDateDescending(events) == SortFrom(<<>>, events)

(***************************************************************************)
(* blocks.ts: building the desired blocks                                  *)
(***************************************************************************)
\* value.replace(/[\r\n]+/g, " ").trim(); the model's strings are single trimmed lines
safeText(value) == IF value = Null THEN "" ELSE value

\* the day of the instant stands for `${month} ${day}${suffix}, ${year}`
formatRoamDate(date) == date \div TicksPerDay

\* a name as its characters: "A" an upper-case letter, "a" a lower-case one, "1" a digit,
\* " " a whitespace character, "!" ASCII punctuation, "U+00E9" a letter outside ASCII
NameChars == { "A", "a", "1", "-", "_", " ", "!", "U+00E9" }

RECURSIVE TrimStart(_)
TrimStart(chars) ==
    IF chars # <<>> /\ Head(chars) = " " THEN TrimStart(Tail(chars)) ELSE chars

RECURSIVE TrimEnd(_)
TrimEnd(chars) ==
    IF chars # <<>> /\ chars[Len(chars)] = " "
    THEN TrimEnd(SubSeq(chars, 1, Len(chars) - 1)) ELSE chars

\* String.prototype.trim
Trim(chars) == TrimEnd(TrimStart(chars))

\* String.prototype.toLowerCase
ToLowerCase(chars) == [k \in 1..Len(chars) |-> IF chars[k] = "A" THEN "a" ELSE chars[k]]

RECURSIVE ReplaceWhitespace(_)
\* .replace(/\s+/g, "-"): every run of whitespace becomes one hyphen
ReplaceWhitespace(chars) ==
    IF chars = <<>> THEN <<>>
    ELSE IF Head(chars) = " " THEN << "-" >> \o ReplaceWhitespace(TrimStart(chars))
    ELSE << Head(chars) >> \o ReplaceWhitespace(Tail(chars))

\* a strip that keeps lower-case letters, hyphens and underscores only
StripUnsafeAndDigits(chars) == SelectSeq(chars, LAMBDA c : c \in { "a", "-", "_" })

\* .replace(/[^a-z0-9-_]/g, "")
StripUnsafe(chars) == SelectSeq(chars, LAMBDA c : c \in { "a", "1", "-", "_" })

\* sanitizeTagName on the characters of the name
sanitizeTagChars(chars) == StripUnsafe(ReplaceWhitespace(ToLowerCase(Trim(chars))))

sanitizeTagName(name) ==
    CASE name = "Work" -> "work"
      [] name = "Home" -> "home"
      [] OTHER -> name

createPropertyBlock(key, value) == [text |-> << key, value >>, children |-> <<>>]

\* content.match(/^ical-id::\s*(.+)$/mi), trimmed; Null when absent or empty
extractICalId(content) ==
    IF Len(content) = 2 /\ content[1] = ICAL_ID_PROPERTY /\ content[2] # ""
    THEN content[2] ELSE Null

RECURSIVE FirstICalId(_)
\* the first child text from which an id is extracted
FirstICalId(children) ==
    IF children = <<>> THEN Null
    ELSE IF extractICalId(Head(children).text) # Null
         THEN extractICalId(Head(children).text)
         ELSE FirstICalId(Tail(children))

extractICalIdFromNode(node) ==
    IF extractICalId(node.text) # Null THEN extractICalId(node.text)
    ELSE FirstICalId(node.children)

extractICalIdFromBlock(block) ==
    IF extractICalId(block.text) # Null THEN extractICalId(block.text)
    ELSE FirstICalId(block.children)

\* text.match(/^([\w-]+)::/)
extractPropertyKey(text) == IF Len(text) = 2 THEN text[1] ELSE Null

buildEventBlock(event, calendarName, titlePrefix) ==
    LET dateText == IF event.dtstart # NoDate THEN formatRoamDate(event.dtstart)
                    ELSE NoDateText
        title == IF safeText(event.summary) # "" THEN safeText(event.summary)
                 ELSE "Untitled event"
        calendarTag == sanitizeTagName(calendarName)
        mainText == << titlePrefix, dateText, title, calendarTag >>
        idChild == << createPropertyBlock(ICAL_ID_PROPERTY, event.uid) >>
        descChild == IF safeText(event.description) # ""
                     THEN << createPropertyBlock(ICAL_DESC_PROPERTY, safeText(event.description)) >>
                     ELSE <<>>
        locChild == IF safeText(event.location) # ""
                    THEN << createPropertyBlock(ICAL_LOCATION_PROPERTY, safeText(event.location)) >>
                    ELSE <<>>
        meetChild == IF event.meetingUrl # Null
                     THEN << createPropertyBlock(ICAL_MEETING_URL_PROPERTY, event.meetingUrl) >>
                     ELSE <<>>
        urlChild == IF event.url # Null
                    THEN << createPropertyBlock(ICAL_URL_PROPERTY, event.url) >>
                    ELSE <<>>
        endChild == IF event.dtend # NoDate /\ formatRoamDate(event.dtend) # dateText
                    THEN << createPropertyBlock(ICAL_END_PROPERTY, formatRoamDate(event.dtend)) >>
                    ELSE <<>>
    IN  [text |-> mainText,
         children |-> idChild \o descChild \o locChild \o meetChild \o urlChild \o endChild]

toInputNode(payload) == [text |-> payload.text, children |-> payload.children]

(***************************************************************************)
(* blocks.ts: reconciliation of one page                                   *)
(*                                                                         *)
(* A store state is [pages, cache, mut]: pages maps a page title to the    *)
(* list of its top-level blocks, cache is pageUidCache, mut counts the     *)
(* calls of createPage, createBlock, updateBlock and deleteBlock.  When    *)
(* mut has a field log, the calls of the Roam API, the waits and the calls *)
(* of the progress observer are appended to it in the order they happen.   *)
(***************************************************************************)
NoMutations == [createPage |-> 0, createBlock |-> 0, updateBlock |-> 0, deleteBlock |-> 0]

\* the counts with an empty trace
TracedMutations ==
    [createPage |-> 0, createBlock |-> 0, updateBlock |-> 0, deleteBlock |-> 0, log |-> <<>>]

\* the counts of a mutation record, without its trace
Counts(mut) ==
    [createPage |-> mut.createPage, createBlock |-> mut.createBlock,
     updateBlock |-> mut.updateBlock, deleteBlock |-> mut.deleteBlock]

\* an entry of the trace: the operation, what it acts on, and two numbers (the
\* milliseconds of a wait, or processed and total of a progress call)
Entry(op, on, n, total) == [op |-> op, on |-> on, n |-> n, total |-> total]

Logged(mut, entry) ==
    IF "log" \in DOMAIN mut THEN [mut EXCEPT !.log = Append(@, entry)] ELSE mut

MUTATION_DELAY_MS == 100

\* a wait that is not taken
delaySkipped(mut, ms) == mut

\* await delay(ms)
delay(mut, ms) == Logged(mut, Entry("delay", "-", ms, 0))

\* createPage of settings.ts (no tree is passed): api.createPage, then the delay
createPage(mut) ==
    delay(Logged([mut EXCEPT !.createPage = @ + 1], Entry("createPage", "page", 0, 0)),
          MUTATION_DELAY_MS)

RECURSIVE createBlockRecursive(_, _, _)
\* api.createBlock and the delay for every node of the list and, depth first, its children
createBlockRecursive(mut, nodes, on) ==
    IF nodes = <<>> THEN mut
    ELSE LET made == delay(Logged(mut, Entry("createBlock", on, 0, 0)), MUTATION_DELAY_MS)
         IN  createBlockRecursive(createBlockRecursive(made, Head(nodes).children, "child"),
                                  Tail(nodes), on)

\* createBlock of settings.ts: one call of the helper, one api.createBlock per node
createBlock(mut, node, on) ==
    createBlockRecursive([mut EXCEPT !.createBlock = @ + 1], << node >>, on)

\* updateBlock of settings.ts: api.updateBlock alone
updateBlock(mut, on) ==
    Logged([mut EXCEPT !.updateBlock = @ + 1], Entry("updateBlock", on, 0, 0))

\* deleteBlock of settings.ts: api.deleteBlock alone
deleteBlock(mut, on) ==
    Logged([mut EXCEPT !.deleteBlock = @ + 1], Entry("deleteBlock", on, 0, 0))

RECURSIVE DeleteEach(_, _)
\* for n nodes in turn: await deleteBlock(node.uid); await delay(MUTATION_DELAY_MS)
DeleteEach(mut, n) ==
    IF n = 0 THEN mut
    ELSE DeleteEach(delay(deleteBlock(mut, "root"), MUTATION_DELAY_MS), n - 1)

TotalMutations(mut) == mut.createPage + mut.createBlock + mut.updateBlock + mut.deleteBlock

\* the uid of a page is modelled by its title
PageUid(title) == title

EmptyMap == [x \in {} |-> x]

MaxOf(S) == CHOOSE x \in S : \A y \in S : y <= x

\* a block map that finds no existing record
buildBlockMapFindsNothing(tree) == EmptyMap

\* map.set(id, node) for every node with an id: the last node of an id stays
buildBlockMap(tree) ==
    LET ids == { extractICalIdFromNode(tree[k]) : k \in 1..Len(tree) } \ { Null }
    IN  [id \in ids |-> MaxOf({ k \in 1..Len(tree) : extractICalIdFromNode(tree[k]) = id })]

\* existingPropsMap of syncChildren
buildPropsMap(children) ==
    LET keys == { extractPropertyKey(children[k].text) : k \in 1..Len(children) } \ { Null }
    IN  [key \in keys |->
            MaxOf({ k \in 1..Len(children) : extractPropertyKey(children[k].text) = key })]

RECURSIVE SyncChildrenLoop(_, _, _, _)
\* the loop of syncChildren over newChildren; returns [children, mut]
SyncChildrenLoop(children, props, mut, newChildren) ==
    IF newChildren = <<>> THEN [children |-> children, mut |-> mut]
    ELSE LET newChild == Head(newChildren)
             propKey == extractPropertyKey(newChild.text)
         IN  IF propKey = Null
             THEN SyncChildrenLoop(children, props, mut, Tail(newChildren))
             ELSE IF propKey \in DOMAIN props
             THEN LET idx == props[propKey]
                      rest == [k \in DOMAIN props \ { propKey } |-> props[k]]
                  IN  IF children[idx].text # newChild.text
                      THEN SyncChildrenLoop(
                               [children EXCEPT ![idx].text = newChild.text], rest,
                               delay(updateBlock(mut, "child"), MUTATION_DELAY_MS),
                               Tail(newChildren))
                      ELSE SyncChildrenLoop(children, rest, mut, Tail(newChildren))
             ELSE SyncChildrenLoop(
                      Append(children, toInputNode(newChild)), props,
                      createBlock(mut, toInputNode(newChild), "child"), Tail(newChildren))

\* a syncChildren that deletes the property children the event no longer has
syncChildrenPruning(existingChildren, mut, newChildren) ==
    LET done == SyncChildrenLoop(existingChildren, buildPropsMap(existingChildren), mut,
                                 newChildren)
        wanted == { extractPropertyKey(newChildren[k].text) : k \in 1..Len(newChildren) }
        kept == SelectSeq(done.children,
                          LAMBDA c : extractPropertyKey(c.text) = Null
                                     \/ extractPropertyKey(c.text) \in wanted)
    IN  [children |-> kept,
         mut |-> DeleteEach(done.mut, Len(done.children) - Len(kept))]

syncChildren(existingChildren, mut, newChildren) ==
    SyncChildrenLoop(existingChildren, buildPropsMap(existingChildren), mut, newChildren)

\* seenIds.has(icalId) of writeBlocksToPage: a later block of an id already handled is skipped
IsDuplicateInBatch(seenIds, icalId) == icalId \in seenIds

RECURSIVE WriteLoop(_, _, _, _, _)
\* the loop of writeBlocksToPage over blocks; returns [tree, seen, mut]
WriteLoop(tree, blockMap, seenIds, mut, blocks) ==
    IF blocks = <<>> THEN [tree |-> tree, seen |-> seenIds, mut |-> mut]
    ELSE LET block == Head(blocks)
             icalId == extractICalIdFromBlock(block)
         IN  IF icalId = Null \/ IsDuplicateInBatch(seenIds, icalId)
             THEN WriteLoop(tree, blockMap, seenIds, mut, Tail(blocks))
             ELSE IF icalId \in DOMAIN blockMap
             THEN LET idx == blockMap[icalId]
                      changed == tree[idx].text # block.text
                      mut1 == IF changed
                              THEN delay(updateBlock(mut, "root"), MUTATION_DELAY_MS)
                              ELSE mut
                      synced == syncChildren(tree[idx].children, mut1, block.children)
                      node == [text |-> block.text, children |-> synced.children]
                  IN  WriteLoop([tree EXCEPT ![idx] = node], blockMap,
                                seenIds \cup { icalId }, synced.mut, Tail(blocks))
             ELSE WriteLoop(Append(tree, toInputNode(block)), blockMap,
                            seenIds \cup { icalId },
                            createBlock(mut, toInputNode(block), "root"), Tail(blocks))

\* the positions of the nodes removeObsoleteBlocks deletes
ObsoleteNodes(blockMap, seenIds) == { blockMap[id] : id \in DOMAIN blockMap \ seenIds }

RECURSIVE RemoveNodes(_, _, _)
\* the tree without the nodes at the positions of del (k is the position of Head)
RemoveNodes(tree, del, k) ==
    IF tree = <<>> THEN <<>>
    ELSE IF k \in del THEN RemoveNodes(Tail(tree), del, k + 1)
         ELSE << Head(tree) >> \o RemoveNodes(Tail(tree), del, k + 1)

\* a clearPageCache that leaves the cache as it is
clearPageCacheSkipped(cache) == cache

\* pageUidCache.clear()
clearPageCache(cache) == EmptyMap

\* a cache test that never finds an entry
cachedUidNeverFound(cache, pageName) == FALSE

\* `const cachedUid = pageUidCache.get(pageName); if (cachedUid)`
cachedUidFound(cache, pageName) == pageName \in DOMAIN cache

ensurePage(st, pageName) ==
    IF cachedUidFound(st.cache, pageName) THEN st
    ELSE IF pageName \in DOMAIN st.pages
    THEN [st EXCEPT !.cache = st.cache @@ (pageName :> PageUid(pageName))]
    ELSE [pages |-> st.pages @@ (pageName :> <<>>),
          cache |-> st.cache @@ (pageName :> PageUid(pageName)),
          mut |-> createPage(st.mut)]

writeBlocksToPage(st, pageName, blocks) ==
    LET st1 == ensurePage(st, pageName)
        existingTree == st1.pages[pageName]
        blockMap == buildBlockMap(existingTree)
        done == WriteLoop(existingTree, blockMap, {}, st1.mut, blocks)
        del == ObsoleteNodes(blockMap, done.seen)
    IN  [pages |-> [st1.pages EXCEPT ![pageName] = RemoveNodes(done.tree, del, 1)],
         cache |-> st1.cache,
         mut |-> DeleteEach(done.mut, Cardinality(del))]

(***************************************************************************)
(* blocks.ts: writeBlocks and the cross-page sweep                         *)
(***************************************************************************)
RECURSIVE CollectEvents(_, _)
\* allEvents of writeBlocks: the filtered events of every calendar, with its name
CollectEvents(calendars, excludePatterns) ==
    IF calendars = <<>> THEN <<>>
    ELSE LET filteredEvents == filterExcludedEvents(Head(calendars).events, excludePatterns)
         IN  [k \in 1..Len(filteredEvents) |->
                 [event |-> filteredEvents[k], calendarName |-> Head(calendars).name]]
             \o CollectEvents(Tail(calendars), excludePatterns)

\* eventCalendarMap.get(uid): the calendar of the last collected event with that uid
eventCalendarMap(allEvents, uid) ==
    allEvents[MaxOf({ k \in 1..Len(allEvents) : allEvents[k].event.uid = uid })].calendarName

\* sortedEventsWithBlocks of writeBlocks
SortedEventsWithBlocks(calendars, excludePatterns, titlePrefix) ==
    LET allEvents == CollectEvents(calendars, excludePatterns)
        sortedEvents ==
            sortEventsByDateDescending([k \in 1..Len(allEvents) |-> allEvents[k].event])
    IN  [k \in 1..Len(sortedEvents) |->
            LET calendarName == eventCalendarMap(allEvents, sortedEvents[k].uid)
            IN  [event |-> sortedEvents[k], calendarName |-> calendarName,
                 block |-> buildEventBlock(sortedEvents[k], calendarName, titlePrefix)]]

PageOf(ewb, pagePrefix) == resolveEventPageName(ewb.event, ewb.calendarName, pagePrefix)

\* sortedEventsWithBlocks.slice(i, i + batchSize), i counted from 0
BatchSlice(swb, i, batchSize) ==
    SubSeq(swb, i + 1, IF i + batchSize < Len(swb) THEN i + batchSize ELSE Len(swb))

RECURSIVE PageOrder(_, _, _)
\* the keys of batchByPage in insertion order
PageOrder(batch, pagePrefix, seen) ==
    IF batch = <<>> THEN <<>>
    ELSE LET pageName == PageOf(Head(batch), pagePrefix)
         IN  IF pageName \in seen THEN PageOrder(Tail(batch), pagePrefix, seen)
             ELSE << pageName >> \o PageOrder(Tail(batch), pagePrefix, seen \cup { pageName })

\* batchByPage.get(pageName), mapped to the blocks
BlocksOfPage(batch, pagePrefix, pageName) ==
    LET mine == SelectSeq(batch, LAMBDA ewb : PageOf(ewb, pagePrefix) = pageName)
    IN  [k \in 1..Len(mine) |-> mine[k].block]

RECURSIVE WritePages(_, _, _, _)
\* for (const [pageName, eventsWithBlocks] of batchByPage) await writeBlocksToPage(...)
WritePages(st, pageNames, batch, pagePrefix) ==
    IF pageNames = <<>> THEN st
    ELSE WritePages(
             writeBlocksToPage(st, Head(pageNames),
                               BlocksOfPage(batch, pagePrefix, Head(pageNames))),
             Tail(pageNames), batch, pagePrefix)

\* the keys of eventsByPage
TargetPages(swb, pagePrefix) == { PageOf(swb[k], pagePrefix) : k \in 1..Len(swb) }

\* currentEventIds of cleanupObsoletePages
CurrentEventIds(swb) == { swb[k].event.uid : k \in 1..Len(swb) }

getPageTitlesStartingWithPrefix(pages, pagePrefix) ==
    { title \in DOMAIN pages : StartsWithPrefix(title, pagePrefix) }

\* the positions of the nodes cleanupObsoletePages deletes on a page it visits
SweptNodes(tree, currentEventIds) ==
    LET blockMap == buildBlockMap(tree)
    IN  { blockMap[id] : id \in DOMAIN blockMap \ currentEventIds }

RECURSIVE SumOver(_, _)
\* the number of elements of the sets f[x], x in S, together
SumOver(S, f) ==
    IF S = {} THEN 0
    ELSE LET x == CHOOSE y \in S : TRUE
         IN  Cardinality(f[x]) + SumOver(S \ { x }, f)

cleanupObsoletePages(st, pagePrefix, swb) ==
    LET visited == getPageTitlesStartingWithPrefix(st.pages, pagePrefix)
                      \ TargetPages(swb, pagePrefix)
        del == [title \in visited |-> SweptNodes(st.pages[title], CurrentEventIds(swb))]
    IN  [pages |-> [title \in DOMAIN st.pages |->
                      IF title \in visited
                      THEN RemoveNodes(st.pages[title], del[title], 1)
                      ELSE st.pages[title]],
         cache |-> st.cache,
         mut |-> DeleteEach(st.mut, SumOver(visited, del))]

\* the delay between batches that is also taken after the last batch
BatchDelayAfterEvery(mut, i, batchSize, total, batchDelayMs) ==
    IF batchDelayMs > 0 THEN delay(mut, batchDelayMs) ELSE mut

\* if (i + config.batchSize < sortedEventsWithBlocks.length && config.batchDelayMs > 0)
\*   await delay(config.batchDelayMs)
BatchDelay(mut, i, batchSize, total, batchDelayMs) ==
    IF i + batchSize < total /\ batchDelayMs > 0 THEN delay(mut, batchDelayMs) ELSE mut

RECURSIVE WriteBatches(_, _, _, _, _, _, _)
\* for (let i = 0; i < sortedEventsWithBlocks.length; i += config.batchSize): the pages of
\* the batch, processedCount += batch.length, onProgress, the delay between batches
WriteBatches(st, swb, i, processedCount, batchSize, batchDelayMs, pagePrefix) ==
    IF i >= Len(swb) THEN st
    ELSE LET batch == BatchSlice(swb, i, batchSize)
             written == WritePages(st, PageOrder(batch, pagePrefix, {}), batch, pagePrefix)
             processed == processedCount + Len(batch)
             reported == Logged(written.mut, Entry("onProgress", "-", processed, Len(swb)))
             rested == BatchDelay(reported, i, batchSize, Len(swb), batchDelayMs)
         IN  WriteBatches([written EXCEPT !.mut = rested], swb, i + batchSize, processed,
                          batchSize, batchDelayMs, pagePrefix)

\* writeBlocks(pagePrefix, calendars, { batchSize, batchDelayMs, excludePatterns,
\* titlePrefix }, onProgress) when no store operation throws: clearPageCache, the batches,
\* cleanupObsoletePages
writeBlocks(store, pagePrefix, calendars, batchSize, batchDelayMs, excludePatterns, titlePrefix) ==
    LET swb == SortedEventsWithBlocks(calendars, excludePatterns, titlePrefix)
        st == WriteBatches([pages |-> store, cache |-> EmptyMap, mut |-> TracedMutations],
                           swb, 0, 0, batchSize, batchDelayMs, pagePrefix)
        swept == [st EXCEPT !.mut = Logged(@, Entry("cleanupObsoletePages", "-", 0, 0))]
    IN  cleanupObsoletePages(swept, pagePrefix, swb)

(***************************************************************************)
(* Faulty variants of three operators defined below.  Each property that   *)
(* is proved of the code is also shown to fail for the variant.            *)
(***************************************************************************)
\* the guard tested only inside `if (trigger === "manual")`
GuardRejectsManualOnly(inProgress, trig) == inProgress /\ trig = "manual"

\* the guard reset on the normal paths only, with no `finally`
GuardKeptAfterError(how) == how = "error"

\* a catch block that forgets `failed++`
FetchAllStepUncounted(acc, config, response) ==
    IF response.ok
    THEN [calendars |-> Append(acc.calendars,
                               [name |-> config.name, url |-> config.url,
                                events |-> response.events]),
          failed |-> acc.failed]
    ELSE acc

(***************************************************************************)
(* ical.ts: fetchAllCalendars, one source per step                         *)
(***************************************************************************)
\* what the network boundary answers for one source
FetchFailed == [ok |-> FALSE, events |-> <<>>]
Responses(url) == { FetchFailed } \cup { [ok |-> TRUE, events |-> f] : f \in Feeds(url) }

\* one iteration of the loop of fetchAllCalendars: acc is [calendars, failed]
FetchAllStep(acc, config, response) ==
    IF response.ok
    THEN [calendars |-> Append(acc.calendars,
                               [name |-> config.name, url |-> config.url,
                                events |-> response.events]),
          failed |-> acc.failed]
    ELSE [calendars |-> acc.calendars, failed |-> acc.failed + 1]

\* the stats fetchAllCalendars returns with the calendars
FetchStats(configs, acc) == [total |-> Len(configs), failed |-> acc.failed]

(***************************************************************************)
(* ical.ts: parseICalContent                                               *)
(*                                                                         *)
(* The text of a feed is a sequence of characters.  "a" and "b" are        *)
(* VEVENTs that convert to an event, "n" is a VEVENT without UID, "x" a    *)
(* VEVENT whose conversion throws, "!" a character ICAL.parse rejects.     *)
(***************************************************************************)
FeedChars == { "a", "b", "n", "x", "!" }

\* ICAL.parse(content) / new ICAL.Component(jcalData) throw
IcalParseThrows(content) == \E k \in 1..Len(content) : content[k] = "!"

\* comp.getAllSubcomponents("vevent")
Vevents(content) == content

\* new ICAL.Event(vevent) or a read of its fields throws
ConversionThrows(vevent) == vevent = "x"

\* the ICalEvent built from a VEVENT: uid: event.uid || "", summary: event.summary || ""
ConvertVevent(vevent) ==
    CASE vevent = "a" -> EvA1
      [] vevent = "b" -> EvB
      [] OTHER -> Event("", 4, NoDate, "", Null)

\* the loop of parseICalContent with no try/catch around one VEVENT: the first failure
\* ends the loop
ConvertLoopStopsAtFailure(vevents, events) ==
    LET bad == { k \in 1..Len(vevents) : ConversionThrows(vevents[k]) }
        upTo == IF bad = {} THEN Len(vevents)
                ELSE (CHOOSE k \in bad : \A m \in bad : k <= m) - 1
        kept == SelectSeq(SubSeq(vevents, 1, upTo), LAMBDA v : ConvertVevent(v).uid # "")
    IN  events \o [k \in 1..Len(kept) |-> ConvertVevent(kept[k])]

RECURSIVE ConvertLoop(_, _)
\* the loop of parseICalContent over vevents: try { ... push } catch { log }
ConvertLoop(vevents, events) ==
    IF vevents = <<>> THEN events
    ELSE IF ConversionThrows(Head(vevents)) THEN ConvertLoop(Tail(vevents), events)
    ELSE LET icalEvent == ConvertVevent(Head(vevents))
         IN  IF icalEvent.uid # ""
             THEN ConvertLoop(Tail(vevents), Append(events, icalEvent))
             ELSE ConvertLoop(Tail(vevents), events)

\* parseICalContent: the outer try/catch turns a failure of ICAL.parse into the events
\* collected so far, which are none
parseICalContent(content) ==
    IF IcalParseThrows(content) THEN [rejected |-> FALSE, events |-> <<>>]
    ELSE [rejected |-> FALSE, events |-> ConvertLoop(Vevents(content), <<>>)]

(***************************************************************************)
(* ical.ts: the conditional fetch and its two caches                       *)
(***************************************************************************)
RECURSIVE ContentCodes(_)
\* content.charCodeAt(i), i = 0 .. content.length - 1
ContentCodes(content) ==
    IF content = <<>> THEN <<>>
    ELSE CharCodes(Head(content)) \o ContentCodes(Tail(content))

\* hashContent: FNV-1a over the characters, (hash >>> 0).toString(36)
hashContent(content) == ToBase36(fnv1aHash(ContentCodes(content)))

\* what the server can answer: a full response, 304 Not Modified, or an error status
FeedTexts == { << "a" >>, << "a", "n" >>, << "b" >> }
ServerResponses ==
    { [status |-> 200, body |-> b, etag |-> e, lastModified |-> m]
        : b \in FeedTexts, e \in {Null, "e1"}, m \in {Null, "m1"} }
    \cup { [status |-> st, body |-> <<>>, etag |-> Null, lastModified |-> Null]
            : st \in {304, 500} }

\* response.ok
ResponseOk(response) == response.status = 200

\* the headers fetchWithCorsProxy sends: conditional only if (!forceRefresh && cacheEntry)
RequestHeaders(cache, url, forceRefresh) ==
    IF ~forceRefresh /\ url \in DOMAIN cache
    THEN [ifNoneMatch |-> cache[url].etag, ifModifiedSince |-> cache[url].lastModified]
    ELSE [ifNoneMatch |-> Null, ifModifiedSince |-> Null]

\* a change detection that never reports an unchanged content
ContentChangedAlways(cache, url, contentHash) == TRUE

\* const contentChanged = !cacheEntry || cacheEntry.contentHash !== contentHash
ContentChanged(cache, url, contentHash) ==
    url \notin DOMAIN cache \/ cache[url].contentHash # contentHash

\* fetchWithCorsProxy(url, forceRefresh) on the cache `cache`, given the answer of the
\* server and the value of Date.now(); `proxy` tells whether Roam supplies a proxy URL
fetchWithCorsProxy(proxy, cache, url, forceRefresh, response, now) ==
    LET failure == [threw |-> TRUE, content |-> <<>>, changed |-> FALSE, cached |-> FALSE,
                    etag |-> Null, lastModified |-> Null, cache |-> cache]
    IN  IF ~proxy THEN failure
        ELSE IF response.status = 304 /\ url \in DOMAIN cache
        THEN [threw |-> FALSE, content |-> <<>>, changed |-> FALSE, cached |-> TRUE,
              etag |-> cache[url].etag, lastModified |-> cache[url].lastModified,
              cache |-> [cache EXCEPT ![url].lastFetched = now]]
        ELSE IF ~ResponseOk(response) THEN failure
        ELSE LET contentHash == hashContent(response.body)
             IN  [threw |-> FALSE, content |-> response.body,
                  changed |-> ContentChanged(cache, url, contentHash), cached |-> FALSE,
                  etag |-> response.etag, lastModified |-> response.lastModified,
                  cache |-> (url :> [url |-> url, etag |-> response.etag,
                                     lastModified |-> response.lastModified,
                                     contentHash |-> contentHash, lastFetched |-> now])
                            @@ cache]

\* an unchanged calendar served with no events at all
CachedEventsDropped(events, url) == <<>>

\* eventsCache.get(config.url) ?? []
CachedEvents(events, url) == IF url \in DOMAIN events THEN events[url] ELSE <<>>

\* the parsed events are kept only for a URL that has none yet
eventsCacheSetIfAbsent(events, url, parsedEvents) ==
    IF url \in DOMAIN events THEN events ELSE (url :> parsedEvents) @@ events

\* eventsCache.set(config.url, events)
eventsCacheSet(events, url, parsedEvents) == (url :> parsedEvents) @@ events

\* fetchICalCalendar(config, forceRefresh) on the two caches; `parsed` tells whether
\* parseICalContent was called
fetchICalCalendar(proxy, cache, events, config, forceRefresh, response, now) ==
    LET fetchResult == fetchWithCorsProxy(proxy, cache, config.url, forceRefresh, response, now)
    IN  IF fetchResult.threw
        THEN [threw |-> TRUE, name |-> config.name, url |-> config.url, events |-> <<>>,
              changed |-> FALSE, cached |-> FALSE, parsed |-> FALSE,
              content |-> fetchResult.content,
              calendarCache |-> fetchResult.cache, eventsCache |-> events]
        ELSE IF ~fetchResult.changed
        THEN [threw |-> FALSE, name |-> config.name, url |-> config.url,
              events |-> CachedEvents(events, config.url),
              changed |-> FALSE, cached |-> fetchResult.cached, parsed |-> FALSE,
              content |-> fetchResult.content,
              calendarCache |-> fetchResult.cache, eventsCache |-> events]
        ELSE LET parsedEvents == parseICalContent(fetchResult.content).events
             IN  [threw |-> FALSE, name |-> config.name, url |-> config.url,
                  events |-> parsedEvents,
                  changed |-> TRUE, cached |-> FALSE, parsed |-> TRUE,
                  content |-> fetchResult.content,
                  calendarCache |-> fetchResult.cache,
                  eventsCache |-> eventsCacheSet(events, config.url, parsedEvents)]

(***************************************************************************)
(* index.ts: syncCalendars                                                 *)
(***************************************************************************)
\* if (syncInProgress) return
GuardRejects(inProgress, trig) == inProgress

\* finally { syncInProgress = false }: the value of the guard after a run that ends as `how`
GuardAfterRun(how) == FALSE

\* the trigger an invocation is made with: 1 is the command or the button, 2 the timer
TriggerOf(i) == IF i = 1 THEN "manual" ELSE "auto"

(***************************************************************************)
(* State                                                                   *)
(***************************************************************************)
VARIABLES
    proxyUrl,        \* roamAlphaAPI.constants.corsAnywhereProxyUrl is supplied
    settings,        \* the snapshot refreshSettings() returns (the panel is not edited)
    pages,           \* the store: page title -> top-level blocks
    pageUidCache,    \* blocks.ts, module level
    syncInProgress,  \* index.ts, module level
    pc,              \* where each syncCalendars invocation stands
    result,          \* how the syncCalendars invocation that returns now returns
    fetchIdx,        \* i of the loop of fetchAllCalendars, counted from 1
    fetched,         \* [calendars, failed] of fetchAllCalendars
    fetchLog,        \* what the network answered, source by source (ok or not)
    sorted,          \* sortedEventsWithBlocks of writeBlocks
    batchStart,      \* i of the batch loop of writeBlocks
    processedCount,  \* processedCount of writeBlocks
    mutations,       \* the store mutations issued by the current writeBlocks
    failedPages,     \* the pages whose reconciliation threw in this run
    repeat,          \* this writeBlocks call repeats the input of a completed one
    lastInput,       \* the calendars given to the latest writeBlocks call
    lastCompleted,   \* the latest writeBlocks call completed
    calendarCache,   \* ical.ts, module level: url -> CalendarCacheEntry
    eventsCache,     \* ical.ts, module level: url -> the events parsed last
    clock,           \* Date.now(), counted in the calls made so far
    changedEvents,   \* url -> the events returned by the latest changed fetch of the url
    call             \* a function of the program applied on its own: inputs and result

vars == << proxyUrl, settings, pages, pageUidCache, syncInProgress, pc, result,
           fetchIdx, fetched, fetchLog, sorted, batchStart, processedCount,
           mutations, failedPages, repeat, lastInput, lastCompleted,
           calendarCache, eventsCache, clock, changedEvents, call >>

envVars == << proxyUrl, settings >>
fetchVars == << fetchIdx, fetched, fetchLog >>
writeVars == << sorted, batchStart, processedCount, mutations, failedPages, repeat >>
histVars == << lastInput, lastCompleted >>
cacheVars == << calendarCache, eventsCache, clock, changedEvents >>
libVars == << cacheVars, call >>
syncVars == << envVars, pages, pageUidCache, syncInProgress, pc, result, fetchVars,
              writeVars, histVars >>

\* a record as reconciliation writes it
StoredRecord(uid, day, title, tag) ==
    [text |-> << DEFAULT_TITLE_PREFIX, day, title, tag >>,
     children |-> << createPropertyBlock(ICAL_ID_PROPERTY, uid) >>]

EmptyStore == EmptyMap

\* a graph in which a page already holds records written twice
LegacyStore ==
    << DEFAULT_PAGE_PREFIX, "Home", sanitizeEventId("a") >> :>
        << StoredRecord("a", 2, "Standup", "home"), StoredRecord("a", 2, "Standup", "home"),
           StoredRecord("b", 2, "Review", "home"), StoredRecord("b", 2, "Review", "home") >>

InitStores == { EmptyStore, LegacyStore }

\* readSettings: the snapshots the settings panel can hold
SettingsSnapshots ==
    { [pagePrefix |-> DEFAULT_PAGE_PREFIX, calendars |-> c, batchSize |-> b,
       excludePatterns |-> ExcludePatterns,
       syncDaysPast |-> SyncDaysPast, syncDaysFuture |-> SyncDaysFuture]
      : c \in CalendarSettings, b \in BatchSizes }

NoFetch == [calendars |-> <<>>, failed |-> 0]

\* no writeBlocks call yet (a call is given at least one calendar)
NoInput == <<>>

\* no function has been applied on its own
NoCall == [fn |-> "none"]

Init ==
    /\ proxyUrl \in BOOLEAN
    /\ settings \in SettingsSnapshots
    /\ pages \in InitStores
    /\ pageUidCache = EmptyMap
    /\ syncInProgress = FALSE
    /\ pc = [i \in Invocations |-> "idle"]
    /\ result = "none"
    /\ fetchIdx = 1
    /\ fetched = NoFetch
    /\ fetchLog = <<>>
    /\ sorted = <<>>
    /\ batchStart = 0
    /\ processedCount = 0
    /\ mutations = NoMutations
    /\ failedPages = {}
    /\ repeat = FALSE
    /\ lastInput = NoInput
    /\ lastCompleted = FALSE
    /\ calendarCache = EmptyMap
    /\ eventsCache = EmptyMap
    /\ clock = 0
    /\ changedEvents = EmptyMap
    /\ call = NoCall

(***************************************************************************)
(* Actions                                                                 *)
(***************************************************************************)
\* syncCalendars is called while a run holds the guard: it returns at once
SyncRejected(i) ==
    /\ pc[i] = "idle"
    /\ GuardRejects(syncInProgress, TriggerOf(i))
    /\ result' = "rejected"
    /\ UNCHANGED << libVars, envVars, pages, pageUidCache, syncInProgress, pc, fetchVars,
                    writeVars, histVars >>

\* syncCalendars is called and no calendar is configured: it returns at once
SyncNoCalendars(i) ==
    /\ pc[i] = "idle"
    /\ ~GuardRejects(syncInProgress, TriggerOf(i))
    /\ Len(settings.calendars) = 0
    /\ result' = "noCalendars"
    /\ UNCHANGED << libVars, envVars, pages, pageUidCache, syncInProgress, pc, fetchVars,
                    writeVars, histVars >>

\* syncCalendars up to its first await: guard, refreshSettings, syncInProgress = true
SyncStart(i) ==
    /\ pc[i] = "idle"
    /\ ~GuardRejects(syncInProgress, TriggerOf(i))
    /\ Len(settings.calendars) > 0
    /\ syncInProgress' = TRUE
    /\ pc' = [pc EXCEPT ![i] = "fetching"]
    /\ result' = "none"
    /\ fetchIdx' = 1
    /\ fetched' = NoFetch
    /\ fetchLog' = <<>>
    /\ UNCHANGED << libVars, envVars, pages, pageUidCache, writeVars, histVars >>

\* one iteration of fetchAllCalendars: fetchICalCalendar(configs[i]) succeeds or throws;
\* getRoamProxyUrl throws inside it when the host supplies no proxy address
FetchOne(i) ==
    /\ pc[i] = "fetching"
    /\ fetchIdx <= Len(settings.calendars)
    /\ \E response \in Responses(settings.calendars[fetchIdx].url) :
          /\ (~proxyUrl => response = FetchFailed)
          /\ fetched' = FetchAllStep(fetched, settings.calendars[fetchIdx], response)
          /\ fetchLog' = Append(fetchLog, response.ok)
    /\ fetchIdx' = fetchIdx + 1
    /\ UNCHANGED << libVars, envVars, pages, pageUidCache, syncInProgress, pc, result,
                    writeVars, histVars >>

\* the calendars syncCalendars hands to writeBlocks
FilteredCalendars ==
    [k \in 1..Len(fetched.calendars) |->
        [name |-> fetched.calendars[k].name, url |-> fetched.calendars[k].url,
         events |-> filterEventsByDateRange(fetched.calendars[k].events,
                                            settings.syncDaysPast, settings.syncDaysFuture)]]

\* the early return without its test: writeBlocks is called with whatever was loaded
NoCalendarLoadedIgnored(calendars) == FALSE

\* `if (calendars.length === 0) { ...; return; }` after fetchAllCalendars
NoCalendarLoaded(calendars) == Len(calendars) = 0

\* fetchAllCalendars returned and no calendar was loaded: the early return
NoneLoaded(i) ==
    /\ pc[i] = "fetching"
    /\ fetchIdx > Len(settings.calendars)
    /\ NoCalendarLoaded(fetched.calendars)
    /\ pc' = [pc EXCEPT ![i] = "ending"]
    /\ result' = "noneLoaded"
    /\ UNCHANGED << libVars, envVars, pages, pageUidCache, syncInProgress, fetchVars,
                    writeVars, histVars >>

\* fetchAllCalendars returned: the date filter, then writeBlocks up to its batch loop
WriteStart(i) ==
    /\ pc[i] = "fetching"
    /\ fetchIdx > Len(settings.calendars)
    /\ ~NoCalendarLoaded(fetched.calendars)
    /\ LET swb == SortedEventsWithBlocks(FilteredCalendars, settings.excludePatterns,
                                         DEFAULT_TITLE_PREFIX)
       IN  /\ sorted' = swb
           /\ pc' = [pc EXCEPT ![i] = IF Len(swb) = 0 THEN "sweeping" ELSE "writing"]
    /\ repeat' = (lastCompleted /\ lastInput = FilteredCalendars)
    /\ lastInput' = FilteredCalendars
    /\ lastCompleted' = FALSE
    /\ pageUidCache' = clearPageCache(pageUidCache)
    /\ batchStart' = 0
    /\ processedCount' = 0
    /\ mutations' = NoMutations
    /\ failedPages' = {}
    /\ UNCHANGED << libVars, envVars, pages, syncInProgress, result, fetchVars >>

\* one batch of writeBlocks: its pages are reconciled in turn
WriteBatch(i) ==
    /\ pc[i] = "writing"
    /\ LET batch == BatchSlice(sorted, batchStart, settings.batchSize)
           pageNames == PageOrder(batch, settings.pagePrefix, {})
           st == WritePages([pages |-> pages, cache |-> pageUidCache, mut |-> mutations],
                            pageNames, batch, settings.pagePrefix)
       IN  /\ pages' = st.pages
           /\ pageUidCache' = st.cache
           /\ mutations' = st.mut
           /\ processedCount' = processedCount + Len(batch)
    /\ batchStart' = batchStart + settings.batchSize
    /\ pc' = [pc EXCEPT ![i] = IF batchStart + settings.batchSize < Len(sorted)
                                THEN "writing" ELSE "sweeping"]
    /\ UNCHANGED << libVars, envVars, syncInProgress, result, fetchVars, sorted, failedPages,
                    repeat, histVars >>

\* a store operation throws when page n + 1 of the batch is about to be reconciled: the
\* exception leaves writeBlocks and is caught by syncCalendars
WriteBatchThrows(i) ==
    /\ pc[i] = "writing"
    /\ LET batch == BatchSlice(sorted, batchStart, settings.batchSize)
           pageNames == PageOrder(batch, settings.pagePrefix, {})
       IN  \E n \in 0..(Len(pageNames) - 1) :
              LET st == WritePages([pages |-> pages, cache |-> pageUidCache,
                                    mut |-> mutations],
                                   SubSeq(pageNames, 1, n), batch, settings.pagePrefix)
              IN  /\ pages' = st.pages
                  /\ pageUidCache' = st.cache
                  /\ mutations' = st.mut
                  /\ failedPages' = failedPages \cup { pageNames[n + 1] }
    /\ pc' = [pc EXCEPT ![i] = "ending"]
    /\ result' = "error"
    /\ UNCHANGED << libVars, envVars, syncInProgress, fetchVars, sorted, batchStart,
                    processedCount, repeat, histVars >>

\* cleanupObsoletePages, then writeBlocks returns
Sweep(i) ==
    /\ pc[i] = "sweeping"
    /\ LET st == cleanupObsoletePages([pages |-> pages, cache |-> pageUidCache,
                                       mut |-> mutations], settings.pagePrefix, sorted)
       IN  /\ pages' = st.pages
           /\ mutations' = st.mut
    /\ lastCompleted' = TRUE
    /\ pc' = [pc EXCEPT ![i] = "ending"]
    /\ result' = "success"
    /\ UNCHANGED << libVars, envVars, pageUidCache, syncInProgress, fetchVars, sorted, batchStart,
                    processedCount, failedPages, repeat, lastInput >>

\* a store operation of the sweep throws before any deletion
SweepThrows(i) ==
    /\ pc[i] = "sweeping"
    /\ pc' = [pc EXCEPT ![i] = "ending"]
    /\ result' = "error"
    /\ UNCHANGED << libVars, envVars, pages, pageUidCache, syncInProgress, fetchVars, writeVars,
                    histVars >>

\* the status message, then finally { syncInProgress = false }; the invocation is over
Finish(i) ==
    /\ pc[i] = "ending"
    /\ syncInProgress' = GuardAfterRun(result)
    /\ pc' = [pc EXCEPT ![i] = "idle"]
    /\ fetchIdx' = 1
    /\ fetched' = NoFetch
    /\ fetchLog' = <<>>
    /\ sorted' = <<>>
    /\ batchStart' = 0
    /\ processedCount' = 0
    /\ mutations' = NoMutations
    /\ failedPages' = {}
    /\ repeat' = FALSE
    /\ result' = "none"
    /\ UNCHANGED << libVars, envVars, pages, pageUidCache, histVars >>

Next ==
    \E i \in Invocations :
        \/ SyncRejected(i)
        \/ SyncNoCalendars(i)
        \/ SyncStart(i)
        \/ FetchOne(i)
        \/ NoneLoaded(i)
        \/ WriteStart(i)
        \/ WriteBatch(i)
        \/ WriteBatchThrows(i)
        \/ Sweep(i)
        \/ SweepThrows(i)
        \/ Finish(i)

Spec == Init /\ [][Next]_vars

\* the same program started on a graph that holds no page under the prefix
InitFresh == Init /\ pages = EmptyStore

SpecFresh == InitFresh /\ [][Next]_vars

(***************************************************************************)
(* The fetch layer on its own: fetchICalCalendar is called with any source, *)
(* any forceRefresh and any answer of the server, and the calendar cache   *)
(* may be cleared between two calls.                                       *)
(***************************************************************************)
FetchConfigs == { CalWork, CalHome }

\* the extension is loaded and no sync runs
InitCache ==
    /\ Init
    /\ pages = EmptyStore
    /\ Len(settings.calendars) > 0
    /\ settings.batchSize = MaxBatchSize

\* one call of fetchICalCalendar, to its return or its throw
FetchCalendar ==
    /\ clock < MaxFetches
    /\ \E config \in FetchConfigs, forceRefresh \in BOOLEAN, response \in ServerResponses :
         LET r == fetchICalCalendar(proxyUrl, calendarCache, eventsCache, config,
                                    forceRefresh, response, clock + 1)
         IN  /\ calendarCache' = r.calendarCache
             /\ eventsCache' = r.eventsCache
             /\ clock' = clock + 1
             /\ changedEvents' = IF r.changed THEN (config.url :> r.events) @@ changedEvents
                                 ELSE changedEvents
             /\ call' = [fn |-> "fetchICalCalendar", config |-> config,
                         forceRefresh |-> forceRefresh, response |-> response,
                         headers |-> RequestHeaders(calendarCache, config.url, forceRefresh),
                         result |-> r]
    /\ UNCHANGED syncVars

\* clearCalendarCache()
ClearCalendarCache ==
    /\ calendarCache' = EmptyMap
    /\ call' = [fn |-> "clearCalendarCache"]
    /\ UNCHANGED << eventsCache, clock, changedEvents, syncVars >>

NextCache == FetchCalendar \/ ClearCalendarCache

SpecCache == InitCache /\ [][NextCache]_vars

(***************************************************************************)
(* writeBlocks on its own: it is called run after run on the store the run *)
(* before left, with any calendar name, events and title prefix.           *)
(***************************************************************************)
TitlePrefixes == { DEFAULT_TITLE_PREFIX, "#cal" }
RunEvents ==
    { << EvA1 >>, << EvA2 >>, << EvAmoved >>, << EvA1, EvA2 >>, << EvAmoved, EvA2 >>,
      << EvB >> }

\* DEFAULT_BATCH_DELAY_MS of constants.ts
DEFAULT_BATCH_DELAY_MS == 500

InitWrite == InitCache /\ proxyUrl

\* one call of writeBlocks that returns
CallWriteBlocks ==
    /\ clock < MaxRuns
    /\ \E name \in { CalWork.name, CalHome.name }, events \in RunEvents,
          titlePrefix \in TitlePrefixes, batchSize \in BatchSizes :
         LET calendars == << [name |-> name, url |-> name, events |-> events] >>
             batchDelayMs == DEFAULT_BATCH_DELAY_MS
             st == writeBlocks(pages, settings.pagePrefix, calendars, batchSize, batchDelayMs,
                               settings.excludePatterns, titlePrefix)
         IN  /\ pages' = st.pages
             /\ pageUidCache' = st.cache
             /\ mutations' = Counts(st.mut)
             /\ call' = [fn |-> "writeBlocks", calendars |-> calendars,
                         batchSize |-> batchSize, batchDelayMs |-> batchDelayMs,
                         titlePrefix |-> titlePrefix, log |-> st.mut.log]
    /\ clock' = clock + 1
    /\ UNCHANGED << envVars, syncInProgress, pc, result, fetchVars, sorted, batchStart,
                    processedCount, failedPages, repeat, histVars, calendarCache,
                    eventsCache, changedEvents >>

NextWrite == CallWriteBlocks

SpecWrite == InitWrite /\ [][NextWrite]_vars

\* a block the user wrote: no ical-id in its text, no child
UserNote == [text |-> << "a note of the user" >>, children |-> <<>>]

\* between two runs the user writes a block at the top of a page under the prefix
UserAddsNote ==
    /\ \E title \in getPageTitlesStartingWithPrefix(pages, settings.pagePrefix) :
         /\ \A k \in 1..Len(pages[title]) : pages[title][k] # UserNote
         /\ pages' = [pages EXCEPT ![title] = << UserNote >> \o @]
    /\ call' = [fn |-> "userEdit"]
    /\ UNCHANGED << envVars, pageUidCache, syncInProgress, pc, result, fetchVars, writeVars,
                    histVars, cacheVars >>

NextNoted == CallWriteBlocks \/ UserAddsNote

SpecNoted == InitWrite /\ [][NextNoted]_vars

\* pages whose title does not start with `${pagePrefix}/`: the prefix is a later segment
\* of the title, or the first segment only begins with it
OutsidePages ==
    { << "Home", DEFAULT_PAGE_PREFIX, sanitizeEventId("a") >>,
      << "icalendar", "Home", sanitizeEventId("b") >> }

\* between two runs the user copies event records to a page outside the prefix
UserWritesElsewhere ==
    /\ \E title \in OutsidePages \ DOMAIN pages :
         pages' = pages @@ (title :> << StoredRecord("a", 2, "Standup", "home"),
                                        StoredRecord("b", 2, "Review", "home"), UserNote >>)
    /\ call' = [fn |-> "userEdit"]
    /\ UNCHANGED << envVars, pageUidCache, syncInProgress, pc, result, fetchVars, writeVars,
                    histVars, cacheVars >>

NextElsewhere == CallWriteBlocks \/ UserWritesElsewhere

SpecElsewhere == InitWrite /\ [][NextElsewhere]_vars

(***************************************************************************)
(* blocks.ts: ensurePage and the store calls of writeBlocksToPage when the *)
(* graph answers late or refuses a call                                    *)
(***************************************************************************)
MaxRetries == 3
MaxLatency == 6

\* the maxRetries ensurePage passes to findPageUidWithRetry
ENSURE_PAGE_RETRIES == 5

\* the messages a store call can throw with; "" when it does not throw
StoreErrors == { "", "already exists", "not found" }

RECURSIVE Pow2(_)
\* Math.pow(2, n)
Pow2(n) == IF n = 0 THEN 1 ELSE 2 * Pow2(n - 1)

RECURSIVE RetryLoop(_, _, _, _)
\* for (let attempt = 0; attempt <= maxRetries; attempt++) of findPageUidWithRetry; the
\* page is visible to the lookups after the first `latency` ones
RetryLoop(maxRetries, latency, attempt, log) ==
    IF attempt > maxRetries THEN [uid |-> Null, log |-> log]
    ELSE LET looked == Append(log, Entry("getPageUidByPageTitle", "page", attempt, 0))
         IN  IF attempt >= latency THEN [uid |-> "uid", log |-> looked]
             ELSE IF attempt < maxRetries
             THEN RetryLoop(maxRetries, latency, attempt + 1,
                            Append(looked,
                                   Entry("delay", "-", MUTATION_DELAY_MS * Pow2(attempt), 0)))
             ELSE RetryLoop(maxRetries, latency, attempt + 1, looked)

findPageUidWithRetry(maxRetries, latency) == RetryLoop(maxRetries, latency, 0, <<>>)

\* ensurePage with its catch branch: cached and exists are the two lookups before
\* createPage, error is what createPage throws with
ensurePageOrThrow(cached, exists, error, latency) ==
    IF cached \/ exists THEN [threw |-> FALSE, attempts |-> 0, log |-> <<>>]
    ELSE LET tried == << Entry("createPage", "page", 0, 0) >>
         IN  IF error = ""
             THEN [threw |-> FALSE, attempts |-> 1,
                   log |-> Append(tried, Entry("delay", "-", MUTATION_DELAY_MS, 0))]
             ELSE IF error = "already exists"
             THEN LET retry == findPageUidWithRetry(ENSURE_PAGE_RETRIES, latency)
                  IN  [threw |-> retry.uid = Null, attempts |-> 1, log |-> tried \o retry.log]
             ELSE [threw |-> TRUE, attempts |-> 1, log |-> tried]

\* `await createBlock(...)`, `await updateBlock(...)` and `await deleteBlock(...)` of
\* writeBlocksToPage, syncChildren and removeObsoleteBlocks: the call is made once and what
\* it throws leaves the function
awaitStoreCall(op, error) ==
    IF error = ""
    THEN [threw |-> FALSE, attempts |-> 1,
          log |-> << Entry(op, "root", 0, 0), Entry("delay", "-", MUTATION_DELAY_MS, 0) >>]
    ELSE [threw |-> TRUE, attempts |-> 1, log |-> << Entry(op, "root", 0, 0) >>]

CallFindPageUidWithRetry ==
    /\ call = NoCall
    /\ \E maxRetries \in 0..MaxRetries, latency \in 0..MaxLatency :
         call' = [fn |-> "findPageUidWithRetry", maxRetries |-> maxRetries,
                  latency |-> latency, result |-> findPageUidWithRetry(maxRetries, latency)]
    /\ UNCHANGED << cacheVars, syncVars >>

CallEnsurePage ==
    /\ call = NoCall
    /\ \E cached \in BOOLEAN, exists \in BOOLEAN, error \in StoreErrors,
          latency \in 0..MaxLatency :
         call' = [fn |-> "ensurePage", cached |-> cached, exists |-> exists,
                  error |-> error, latency |-> latency,
                  result |-> ensurePageOrThrow(cached, exists, error, latency)]
    /\ UNCHANGED << cacheVars, syncVars >>

CallStoreMutation ==
    /\ call = NoCall
    /\ \E op \in { "createBlock", "updateBlock", "deleteBlock" }, error \in StoreErrors :
         call' = [fn |-> "storeCall", op |-> op, error |-> error,
                  result |-> awaitStoreCall(op, error)]
    /\ UNCHANGED << cacheVars, syncVars >>

NextRetry == CallFindPageUidWithRetry \/ CallEnsurePage \/ CallStoreMutation

SpecRetry == InitWrite /\ [][NextRetry]_vars

(***************************************************************************)
(* One run of writeBlocks with a progress observer, on an empty graph or   *)
(* on a graph an earlier version wrote, with the trace of its store        *)
(* operations, waits and progress calls kept in call.log.  batchSize and   *)
(* batchDelayMs are what readSettings makes of the stored values.          *)
(***************************************************************************)
\* the event b with a later end
EvBlong == Event("b", 5, 8, "Review", Null)

TraceEvents ==
    RunEvents \cup { <<>>, << EvA1, EvB >>, << EvB, EvBlong >>, << EvA1, EvB, EvOld >> }

DEFAULT_BATCH_SIZE == 50

\* what the settings store may hold under a numeric key: a finite number, a string that
\* Number() reads as a finite number, or anything else (undefined, NaN, other text)
StoredNumber(kind, n) == [kind |-> kind, n |-> n]

StoredBatchSizes ==
    { StoredNumber("number", n) : n \in (0 - 1)..MaxBatchSize }
        \cup { StoredNumber("string", 0), StoredNumber("string", 2), StoredNumber("other", 0) }

StoredBatchDelays ==
    { StoredNumber("number", 0 - 1), StoredNumber("number", 0),
      StoredNumber("number", DEFAULT_BATCH_DELAY_MS), StoredNumber("other", 0) }

\* getNumber(settings, key, fallback)
getNumber(value, fallback) ==
    IF value.kind \in { "number", "string" } THEN value.n ELSE fallback

\* the settings value passed on as it was read
readBatchDelayMsUnclamped(value) == getNumber(value, DEFAULT_BATCH_DELAY_MS)

\* readSettings: batchSize = Math.max(getNumber(..., DEFAULT_BATCH_SIZE), 1)
readBatchSize(value) == MaxOf({ getNumber(value, DEFAULT_BATCH_SIZE), 1 })

\* readSettings: batchDelayMs = Math.max(getNumber(..., DEFAULT_BATCH_DELAY_MS), 0)
readBatchDelayMs(value) == MaxOf({ getNumber(value, DEFAULT_BATCH_DELAY_MS), 0 })

BatchDelays == { readBatchDelayMs(v) : v \in StoredBatchDelays }

InitTrace ==
    /\ Init
    /\ Len(settings.calendars) > 0
    /\ settings.batchSize = MaxBatchSize
    /\ proxyUrl

CallWriteBlocksObserved ==
    /\ call = NoCall
    /\ \E name \in { CalWork.name, CalHome.name }, events \in TraceEvents,
          titlePrefix \in TitlePrefixes, storedSize \in StoredBatchSizes,
          storedDelay \in StoredBatchDelays :
         LET calendars == << [name |-> name, url |-> name, events |-> events] >>
             batchSize == readBatchSize(storedSize)
             batchDelayMs == readBatchDelayMs(storedDelay)
             st == writeBlocks(pages, settings.pagePrefix, calendars, batchSize, batchDelayMs,
                               settings.excludePatterns, titlePrefix)
         IN  /\ pages' = st.pages
             /\ pageUidCache' = st.cache
             /\ mutations' = Counts(st.mut)
             /\ call' = [fn |-> "writeBlocks", calendars |-> calendars,
                         stored |-> << storedSize, storedDelay >>,
                         batchSize |-> batchSize, batchDelayMs |-> batchDelayMs,
                         titlePrefix |-> titlePrefix, log |-> st.mut.log]
    /\ clock' = clock + 1
    /\ UNCHANGED << envVars, syncInProgress, pc, result, fetchVars, sorted, batchStart,
                    processedCount, failedPages, repeat, histVars, calendarCache,
                    eventsCache, changedEvents >>

NextTrace == CallWriteBlocksObserved

SpecTrace == InitTrace /\ [][NextTrace]_vars

(***************************************************************************)
(* ical.ts: extractMeetingUrl                                              *)
(*                                                                         *)
(* A text is a sequence of tokens [host, id]: a link to a room id of a     *)
(* provider's host, or a plain word (host "none").  Three of the twenty    *)
(* provider patterns are kept, in the order of the list.                   *)
(***************************************************************************)
MEETING_URL_PATTERNS ==
    << [name |-> "Zoom", host |-> "zoom.us"],
       [name |-> "Google Meet", host |-> "meet.google.com"],
       [name |-> "Microsoft Teams", host |-> "teams.microsoft.com"] >>

PlainWord == [host |-> "none", id |-> 0]
TextTokens ==
    { PlainWord, [host |-> "zoom.us", id |-> 1], [host |-> "zoom.us", id |-> 2],
      [host |-> "meet.google.com", id |-> 1], [host |-> "teams.microsoft.com", id |-> 1] }

NoMatch == [found |-> FALSE, url |-> PlainWord]

\* text.match(pattern): the leftmost match of the pattern, match[0]
MatchPattern(text, pattern) ==
    LET hits == { k \in 1..Len(text) : text[k].host = pattern.host }
    IN  IF hits = {} THEN NoMatch
        ELSE [found |-> TRUE, url |-> text[CHOOSE k \in hits : \A m \in hits : k <= m]]

\* an extraction that returns the leftmost link of the text, whatever its provider
extractMeetingUrlLeftmost(text) ==
    LET hits == { k \in 1..Len(text) : text[k].host # "none" }
    IN  IF hits = {} THEN NoMatch
        ELSE [found |-> TRUE, url |-> text[CHOOSE k \in hits : \A m \in hits : k <= m]]

RECURSIVE ExtractLoop(_, _)
\* for (const { pattern } of MEETING_URL_PATTERNS) { if (match) return match[0] }
ExtractLoop(text, patterns) ==
    IF patterns = <<>> THEN NoMatch
    ELSE IF MatchPattern(text, Head(patterns)).found THEN MatchPattern(text, Head(patterns))
    ELSE ExtractLoop(text, Tail(patterns))

\* extractMeetingUrl(text); a null, undefined or empty text takes the first return
extractMeetingUrl(text) ==
    IF text = <<>> THEN NoMatch ELSE ExtractLoop(text, MEETING_URL_PATTERNS)

RECURSIVE ExtractWithServiceLoop(_, _)
\* for (const { name, pattern } of MEETING_URL_PATTERNS) { ... return { url, service } }
ExtractWithServiceLoop(text, patterns) ==
    IF patterns = <<>> THEN [found |-> FALSE, url |-> PlainWord, service |-> "none"]
    ELSE IF MatchPattern(text, Head(patterns)).found
         THEN [found |-> TRUE, url |-> MatchPattern(text, Head(patterns)).url,
               service |-> Head(patterns).name]
         ELSE ExtractWithServiceLoop(text, Tail(patterns))

extractMeetingUrlWithService(text) ==
    IF text = <<>> THEN [found |-> FALSE, url |-> PlainWord, service |-> "none"]
    ELSE ExtractWithServiceLoop(text, MEETING_URL_PATTERNS)

\* parseICalContent: extractMeetingUrl(location) || extractMeetingUrl(description) ||
\* extractMeetingUrl(url)
SelectMeetingUrl(location, description, url) ==
    IF extractMeetingUrl(location).found THEN extractMeetingUrl(location)
    ELSE IF extractMeetingUrl(description).found THEN extractMeetingUrl(description)
    ELSE extractMeetingUrl(url)

(***************************************************************************)
(* settings.ts: parseCalendarsConfig                                       *)
(*                                                                         *)
(* A line is a sequence of tokens: " " whitespace, "#" and "//" the two    *)
(* comment marks, "|" the separator, "n" a word, "U" an https URL, "F" an  *)
(* ftp URL.                                                                *)
(***************************************************************************)
\* isValidUrl: new URL(urlString) does not throw and the protocol is http: or https:.
\* An https URL followed by words is still one; whitespace or "|" inside it, or anything
\* before it, make new URL throw or give another protocol.
isValidUrl(urlString) ==
    /\ urlString # <<>>
    /\ Head(urlString) = "U"
    /\ \A k \in 2..Len(urlString) : urlString[k] = "n"

\* a comment test that knows the mark "#" only
IsCommentHashOnly(trimmed) == trimmed # <<>> /\ Head(trimmed) = "#"

\* trimmed.startsWith("#") || trimmed.startsWith("//")
IsComment(trimmed) == trimmed # <<>> /\ Head(trimmed) \in { "#", "//" }

\* trimmed.indexOf("|"), counted from 1; 0 when there is none
IndexOfPipe(trimmed) ==
    LET hits == { k \in 1..Len(trimmed) : trimmed[k] = "|" }
    IN  IF hits = {} THEN 0 ELSE CHOOSE k \in hits : \A m \in hits : k <= m

\* new URL(trimmed).hostname
Hostname(url) == << "hostname" >>

\* the body of the loop of parseCalendarsConfig for one line
ParseConfigLine(line) ==
    LET trimmed == Trim(line)
        pipeIndex == IndexOfPipe(trimmed)
        name == Trim(SubSeq(trimmed, 1, pipeIndex - 1))
        url == Trim(SubSeq(trimmed, pipeIndex + 1, Len(trimmed)))
        skip == [kind |-> "skip", name |-> <<>>, url |-> <<>>]
        error == [kind |-> "error", name |-> <<>>, url |-> <<>>]
    IN  IF trimmed = <<>> THEN skip
        ELSE IF IsComment(trimmed) THEN skip
        ELSE IF pipeIndex = 0
        THEN IF isValidUrl(trimmed)
             THEN [kind |-> "calendar", name |-> Hostname(trimmed), url |-> trimmed]
             ELSE error
        ELSE IF name = <<>> THEN error
        ELSE IF url = <<>> THEN error
        ELSE IF ~isValidUrl(url) THEN error
        ELSE [kind |-> "calendar", name |-> name, url |-> url]

RECURSIVE ParseConfigLoop(_, _)
\* for (const line of lines)
ParseConfigLoop(lines, acc) ==
    IF lines = <<>> THEN acc
    ELSE LET r == ParseConfigLine(Head(lines))
         IN  ParseConfigLoop(Tail(lines),
                 IF r.kind = "calendar"
                 THEN [acc EXCEPT !.calendars = Append(@, [name |-> r.name, url |-> r.url])]
                 ELSE IF r.kind = "error"
                 THEN [acc EXCEPT !.errors = Append(@, Trim(Head(lines)))]
                 ELSE acc)

\* parseCalendarsConfig(raw), raw given as its lines (an empty raw is no line at all);
\* no statement of it can throw outside a try
parseCalendarsConfig(lines) ==
    ParseConfigLoop(lines, [calendars |-> <<>>, errors |-> <<>>, threw |-> FALSE])

(***************************************************************************)
(* The pure functions of ical.ts, each applied once to any input of a      *)
(* bounded set.                                                            *)
(***************************************************************************)
RECURSIVE SeqsUpTo(_, _)
\* the sequences of at most n elements of S
SeqsUpTo(S, n) ==
    IF n = 0 THEN { <<>> }
    ELSE LET shorter == SeqsUpTo(S, n - 1)
         IN  shorter \cup { Append(q, x) : q \in shorter, x \in S }

\* the latest instant an event is given
MaxDate == (Today + SyncDaysFuture + 2) * TicksPerDay
Dates == { NoDate } \cup 0..MaxDate

TitledEvents == { Event("a", 4, NoDate, t, Null) : t \in { "Standup", "Busy", "busy", "" } }
PatternLists == { <<>>, << "^Busy$" >>, << "^$" >>, << "^Busy$", ".*" >> }
DatedEvents ==
    { EvA1, EvA2, EvB, EvOld, Event("b", NoDate, NoDate, "Review", Null),
      Event("a", NoDate, 5, "Standup", Null) }

\* the UTF-16 code units a uid is made of: '0', '@', 'a', 'b', U+00FF, U+FFFF
UidCodes == { 48, 64, 97, 98, 255, 65535 }

\* the texts of the three fields of a VEVENT
FieldTexts ==
    { <<>>, << PlainWord >>, << [host |-> "zoom.us", id |-> 1] >>,
      << [host |-> "meet.google.com", id |-> 1] >>,
      << [host |-> "teams.microsoft.com", id |-> 1], [host |-> "zoom.us", id |-> 2] >> }

\* the lines a calendars setting is made of
ConfigLines ==
    { <<>>, << " " >>, << "#", "n" >>, << " ", "//", "U" >>, << "#", "|", "U" >>,
      << "U" >>, << "U", " ", "n" >>, << "n" >>, << "F" >>,
      << "n", "|", "U" >>, << " ", "n", " ", "|", " ", "U", "n", " " >>,
      << "|", "U" >>, << "n", "|", " " >>, << "n", "|", "F" >>, << "n", "|", "U", "|", "n" >> }

InitPure == InitWrite

\* filterExcludedEvents(events, excludePatterns)
CallFilterExcludedEvents ==
    /\ call = NoCall
    /\ \E events \in SeqsUpTo(TitledEvents, MaxLen), patterns \in PatternLists :
         call' = [fn |-> "filterExcludedEvents", events |-> events, patterns |-> patterns,
                  result |-> filterExcludedEvents(events, patterns)]
    /\ UNCHANGED << cacheVars, syncVars >>

\* isEventInDateRange(event, { daysPast, daysFuture })
CallIsEventInDateRange ==
    /\ call = NoCall
    /\ \E dtstart \in Dates, dtend \in Dates,
          daysPast \in 0..SyncDaysPast, daysFuture \in 0..SyncDaysFuture :
         LET event == Event("a", dtstart, dtend, "Standup", Null)
         IN  call' = [fn |-> "isEventInDateRange", event |-> event,
                      daysPast |-> daysPast, daysFuture |-> daysFuture,
                      result |-> isEventInDateRange(event, daysPast, daysFuture)]
    /\ UNCHANGED << cacheVars, syncVars >>

\* sortEventsByDateDescending(events): [...events] is sorted, the argument is not written
CallSortEventsByDateDescending ==
    /\ call = NoCall
    /\ \E events \in SeqsUpTo(DatedEvents, MaxLen) :
         call' = [fn |-> "sortEventsByDateDescending", events |-> events,
                  eventsAfter |-> events,
                  result |-> sortEventsByDateDescending(events)]
    /\ UNCHANGED << cacheVars, syncVars >>

\* parseICalContent(content, calendarName)
CallParseICalContent ==
    /\ call = NoCall
    /\ \E content \in SeqsUpTo(FeedChars, MaxLen) :
         call' = [fn |-> "parseICalContent", content |-> content,
                  result |-> parseICalContent(content)]
    /\ UNCHANGED << cacheVars, syncVars >>

\* hashEventId(uid), applied twice to the same uid
CallHashEventId ==
    /\ call = NoCall
    /\ \E codes \in SeqsUpTo(UidCodes, MaxLen) :
         LET parts == hashEventIdParts(codes)
             again == hashEventIdParts(codes)
         IN  call' = [fn |-> "hashEventId", codes |-> codes,
                      part1 |-> parts.part1, part2 |-> parts.part2,
                      result |-> parts.part1 \o parts.part2,
                      again |-> again.part1 \o again.part2]
    /\ UNCHANGED << cacheVars, syncVars >>

\* sanitizeTagName(name), and sanitizeTagName of what it returned
CallSanitizeTagName ==
    /\ call = NoCall
    /\ \E chars \in SeqsUpTo(NameChars, MaxLen) :
         call' = [fn |-> "sanitizeTagName", chars |-> chars,
                  result |-> sanitizeTagChars(chars),
                  twice |-> sanitizeTagChars(sanitizeTagChars(chars))]
    /\ UNCHANGED << cacheVars, syncVars >>

\* extractMeetingUrl(text) and extractMeetingUrlWithService(text)
CallExtractMeetingUrl ==
    /\ call = NoCall
    /\ \E text \in SeqsUpTo(TextTokens, MaxLen) :
         call' = [fn |-> "extractMeetingUrl", text |-> text,
                  result |-> extractMeetingUrl(text),
                  withService |-> extractMeetingUrlWithService(text)]
    /\ UNCHANGED << cacheVars, syncVars >>

\* the meetingUrl parseICalContent gives an event
CallSelectMeetingUrl ==
    /\ call = NoCall
    /\ \E location \in FieldTexts, description \in FieldTexts, url \in FieldTexts :
         call' = [fn |-> "meetingUrl", fields |-> << location, description, url >>,
                  result |-> SelectMeetingUrl(location, description, url)]
    /\ UNCHANGED << cacheVars, syncVars >>

\* parseCalendarsConfig(raw)
CallParseCalendarsConfig ==
    /\ call = NoCall
    /\ \E lines \in SeqsUpTo(ConfigLines, MaxLen) :
         call' = [fn |-> "parseCalendarsConfig", lines |-> lines,
                  result |-> parseCalendarsConfig(lines)]
    /\ UNCHANGED << cacheVars, syncVars >>

\* the children a record can have in the graph: properties the extension wrote, a
\* property and a plain block the user added
ChildPool ==
    { createPropertyBlock(ICAL_ID_PROPERTY, "a"),
      createPropertyBlock(ICAL_LOCATION_PROPERTY, "Room 1"),
      createPropertyBlock(ICAL_LOCATION_PROPERTY, "Room 2"),
      createPropertyBlock("tags", "x"),
      UserNote }

\* the events whose blocks give the desired children
ChildEvents ==
    { Event("a", 4, NoDate, "Standup", Null), Event("a", 4, NoDate, "Standup", "Room 1"),
      Event("a", 4, NoDate, "Standup", "Room 2"), Event("a", 4, 7, "Standup", "Room 2") }

\* syncChildren(parentUid, existingChildren, newChildren)
CallSyncChildren ==
    /\ call = NoCall
    /\ \E existing \in SeqsUpTo(ChildPool, MaxLen), event \in ChildEvents :
         LET newChildren == buildEventBlock(event, "Work", DEFAULT_TITLE_PREFIX).children
         IN  call' = [fn |-> "syncChildren", existing |-> existing,
                      newChildren |-> newChildren,
                      result |-> syncChildren(existing, TracedMutations, newChildren)]
    /\ UNCHANGED << cacheVars, syncVars >>

NextPure ==
    \/ CallSyncChildren
    \/ CallParseCalendarsConfig
    \/ CallExtractMeetingUrl
    \/ CallSelectMeetingUrl
    \/ CallHashEventId
    \/ CallSanitizeTagName
    \/ CallFilterExcludedEvents
    \/ CallIsEventInDateRange
    \/ CallSortEventsByDateDescending
    \/ CallParseICalContent

SpecPure == InitPure /\ [][NextPure]_vars

(***************************************************************************)
(* ical.ts and index.ts: the sources of one run, fetch by fetch.  call     *)
(* holds the loop of fetchAllCalendars: next is the source whose fetch is  *)
(* issued next, inFlight the sources whose fetchICalCalendar has not       *)
(* returned or thrown, stageOf their stage, silent those whose server      *)
(* never answers.  What follows the loop in syncCalendars is taken to      *)
(* complete.                                                               *)
(***************************************************************************)
MaxSources == 3

SourceLists == SeqsUpTo({ CalWork, CalHome }, MaxSources) \ { <<>> }

\* Promise.all over the sources: a fetch is issued while others are in flight
MayStartNextConcurrently(inFlight) == TRUE

\* `const calendar = await fetchICalCalendar(config, forceRefresh)` in the for loop: the
\* next iteration begins when the call of this one has returned or thrown
MayStartNext(inFlight) == inFlight = {}

\* `await fetch(proxyUrl, { headers })`: no signal and no timer are passed, so the promise
\* of a request the server never answers is never settled
FetchSettles(silent) == ~silent

\* syncCalendars: the guard is taken, fetchAllCalendars is entered
SourcesRunStarts ==
    /\ call = NoCall
    /\ ~syncInProgress
    /\ syncInProgress' = TRUE
    /\ \E configs \in SourceLists :
         call' = [fn |-> "fetchAllCalendars", configs |-> configs, stage |-> "loop",
                  next |-> 1, inFlight |-> {}, parsing |-> {}, silent |-> {},
                  calendars |-> <<>>, failed |-> 0]
    /\ UNCHANGED << cacheVars, envVars, pages, pageUidCache, pc, result, fetchVars,
                    writeVars, histVars >>

\* fetchICalCalendar(configs[next]) is called and reaches its fetch
FetchIssued ==
    /\ call.fn = "fetchAllCalendars" /\ call.stage = "loop"
    /\ call.next <= Len(call.configs)
    /\ MayStartNext(call.inFlight)
    /\ \E quiet \in BOOLEAN :
         call' = [call EXCEPT !.next = @ + 1,
                              !.inFlight = @ \cup { call.next },
                              !.silent = IF quiet THEN @ \cup { call.next } ELSE @]
    /\ UNCHANGED << cacheVars, syncVars >>

\* the response arrives: 304 or an unchanged body (the events of the cache are returned),
\* a changed body (parseICalContent is entered), or a status that is not ok (the throw)
ServerAnswers ==
    /\ call.fn = "fetchAllCalendars" /\ call.stage = "loop"
    /\ \E j \in call.inFlight \ call.parsing, answer \in { "unchanged", "changed", "error" } :
         /\ FetchSettles(j \in call.silent)
         /\ call' = CASE answer = "unchanged" ->
                            [call EXCEPT !.inFlight = @ \ { j },
                                         !.calendars = Append(@, j)]
                      [] answer = "changed" -> [call EXCEPT !.parsing = @ \cup { j }]
                      [] OTHER -> [call EXCEPT !.inFlight = @ \ { j }, !.failed = @ + 1]
    /\ UNCHANGED << cacheVars, syncVars >>

\* parseICalContent returns the events, or throws (the feed is not iCalendar)
ParseEnds ==
    /\ call.fn = "fetchAllCalendars" /\ call.stage = "loop"
    /\ \E j \in call.parsing, thrown \in BOOLEAN :
         call' = IF thrown
                 THEN [call EXCEPT !.inFlight = @ \ { j }, !.parsing = @ \ { j },
                                   !.failed = @ + 1]
                 ELSE [call EXCEPT !.inFlight = @ \ { j }, !.parsing = @ \ { j },
                                   !.calendars = Append(@, j)]
    /\ UNCHANGED << cacheVars, syncVars >>

\* the loop is over: fetchAllCalendars returns, the run goes on to its end and
\* `finally { syncInProgress = false }`
SourcesRunEnds ==
    /\ call.fn = "fetchAllCalendars" /\ call.stage = "loop"
    /\ call.next > Len(call.configs)
    /\ call.inFlight = {}
    /\ call' = [call EXCEPT !.stage = "returned"]
    /\ syncInProgress' = FALSE
    /\ UNCHANGED << cacheVars, envVars, pages, pageUidCache, pc, result, fetchVars,
                    writeVars, histVars >>

NextSources ==
    SourcesRunStarts \/ FetchIssued \/ ServerAnswers \/ ParseEnds \/ SourcesRunEnds

SpecSources == InitWrite /\ [][NextSources]_vars

\* every step that can be taken is taken in the end: timers fire, promises that settle
\* are resumed
SpecSourcesFair == SpecSources /\ WF_vars(NextSources)

(***************************************************************************)
(* index.ts: onload and onunload.  The host may call onload again while an *)
(* earlier call is at one of its awaits, and may call onunload at any      *)
(* time.  The `call` record holds the module variables of index.ts, the    *)
(* position of each onload call, and the number of registerCommand and     *)
(* registerTopbarButton calls that succeeded since the last onunload.      *)
(***************************************************************************)
MaxLoads == 2
MaxUnloads == 1
Loads == 1..MaxLoads

\* the module variables as `let` leaves them, before any handler ran; a handle is the set
\* of the onload call that produced it, the empty set is null
ModuleLoaded ==
    [fn |-> "extension", initialized |-> FALSE, extensionAPIRef |-> FALSE,
     settingsHandle |-> {}, unregisterCommand |-> {},
     removeTopbarButton |-> {}, at |-> [k \in Loads |-> "notCalled"],
     commands |-> 0, buttons |-> 0, unloads |-> 0]

Ext == IF call.fn = "extension" THEN call ELSE ModuleLoaded

\* onload(args) up to its first await: `if (initialized) return`, then the 100 ms timer
onloadCalled(k) ==
    /\ call.fn \in {"none", "extension"}
    /\ Ext.at[k] = "notCalled"
    /\ call' = [Ext EXCEPT !.at[k] = IF Ext.initialized
                                     THEN "returned" ELSE "timer"]
    /\ UNCHANGED << cacheVars, syncVars >>

\* the timer fired: extensionAPIRef = extensionAPI, initializeSettings is awaited
onloadTimerFired(k) ==
    /\ call.fn = "extension"
    /\ call.at[k] = "timer"
    /\ call' = [call EXCEPT !.extensionAPIRef = TRUE, !.at[k] = "settings"]
    /\ UNCHANGED << cacheVars, syncVars >>

\* initializeSettings settled: on success settingsHandle is set, refreshSettings runs (it
\* throws when extensionAPIRef is null) and registerCommand is called and awaited; every
\* throw ends in the catch of onload
onloadSettingsReady(k) ==
    /\ call.fn = "extension"
    /\ call.at[k] = "settings"
    /\ \E ok \in BOOLEAN :
         call' = IF ok /\ call.extensionAPIRef
                 THEN [call EXCEPT !.settingsHandle = {k}, !.at[k] = "command"]
                 ELSE [call EXCEPT !.settingsHandle = IF ok THEN {k} ELSE @,
                                   !.at[k] = "failed"]
    /\ UNCHANGED << cacheVars, syncVars >>

\* registerCommand settled: when it resolved the command is registered, unregisterCommand
\* is set, registerTopbarButton is called, removeTopbarButton is set, initialized = true;
\* when it rejected the catch of onload ends the call
onloadCommandRegistered(k) ==
    /\ call.fn = "extension"
    /\ call.at[k] = "command"
    /\ \E ok \in BOOLEAN :
         call' = IF ok
                 THEN [call EXCEPT !.unregisterCommand = {k}, !.commands = @ + 1,
                                   !.buttons = @ + 1,
                                   !.removeTopbarButton = {k}, !.initialized = TRUE,
                                   !.at[k] = "loaded"]
                 ELSE [call EXCEPT !.at[k] = "failed"]
    /\ UNCHANGED << cacheVars, syncVars >>

\* onunload(): the kept handles are called and dropped, the module variables are reset; an
\* onload call that is at an await is not cancelled
onunload ==
    /\ call.fn = "extension"
    /\ call.unloads < MaxUnloads
    /\ call' = [call EXCEPT !.removeTopbarButton = {}, !.unregisterCommand = {},
                            !.settingsHandle = {}, !.extensionAPIRef = FALSE,
                            !.initialized = FALSE, !.commands = 0, !.buttons = 0,
                            !.unloads = @ + 1]
    /\ UNCHANGED << cacheVars, syncVars >>

NextLoad ==
    \/ \E k \in Loads : onloadCalled(k)
    \/ \E k \in Loads : onloadTimerFired(k)
    \/ \E k \in Loads : onloadSettingsReady(k)
    \/ \E k \in Loads : onloadCommandRegistered(k)
    \/ onunload

SpecLoad == InitWrite /\ [][NextLoad]_vars

(***************************************************************************)
(* blocks.ts: the ensurePage calls of one writeBlocks run, call by call.   *)
(* The title lookup may miss a page that exists (the store answers queries *)
(* with a delay); createPage then throws "already exists".  A throw of     *)
(* ensurePage leaves writeBlocks, which has no catch around it.            *)
(***************************************************************************)
MaxEnsureCalls == 3
MaxPageRuns == 2

RunPages ==
    { << DEFAULT_PAGE_PREFIX, name, sanitizeEventId("a") >> : name \in { "Work", "Home" } }

\* the number of entries of an operation in a trace
CallsIn(log, op) == Cardinality({ i \in 1..Len(log) : log[i].op = op })

\* writeBlocks starts: clearPageCache()
PageRunStarts ==
    /\ call.fn = "none" \/ (call.fn = "pages" /\ call.stage # "run" /\ call.run < MaxPageRuns)
    /\ pageUidCache' = clearPageCache(pageUidCache)
    /\ call' = [fn |-> "pages", stage |-> "run",
                run |-> IF call.fn = "none" THEN 1 ELSE call.run + 1,
                calls |-> 0, last |-> << >>,
                created |-> [p \in RunPages |-> 0],
                lookups |-> [p \in RunPages |-> 0],
                returned |-> [p \in RunPages |-> {}]]
    /\ UNCHANGED << cacheVars, envVars, pages, syncInProgress, pc, result, fetchVars,
                    writeVars, histVars >>

\* writeBlocksToPage(pageName, ...) calls ensurePage(pageName): the cache test, the title
\* lookup, createPage, and the search after "already exists"
EnsurePageCalled ==
    /\ call.fn = "pages" /\ call.stage = "run"
    /\ call.calls < MaxEnsureCalls
    /\ \E pageName \in RunPages, seen \in BOOLEAN, latency \in { 1, MaxLatency },
          fails \in BOOLEAN :
         LET cached == cachedUidFound(pageUidCache, pageName)
             exists == pageName \in DOMAIN pages /\ seen
             error == IF pageName \in DOMAIN pages THEN "already exists"
                      ELSE IF fails THEN "not found" ELSE ""
             r == ensurePageOrThrow(cached, exists, error, latency)
             created == ~cached /\ ~exists /\ error = ""
             uid == IF cached THEN pageUidCache[pageName] ELSE PageUid(pageName)
         IN  /\ pages' = IF created THEN pages @@ (pageName :> <<>>) ELSE pages
             /\ pageUidCache' = IF cached \/ r.threw THEN pageUidCache
                                ELSE (pageName :> uid) @@ pageUidCache
             /\ call' = [call EXCEPT
                           !.calls = @ + 1, !.last = pageName,
                           !.stage = IF r.threw THEN "thrown" ELSE "run",
                           !.created[pageName] = @ + CallsIn(r.log, "createPage"),
                           !.lookups[pageName] =
                               @ + (IF cached THEN 0 ELSE 1)
                                 + CallsIn(r.log, "getPageUidByPageTitle"),
                           !.returned[pageName] = IF r.threw THEN @ ELSE @ \cup { uid }]
    /\ UNCHANGED << cacheVars, envVars, syncInProgress, pc, result, fetchVars, writeVars,
                    histVars >>

\* writeBlocks returns
PageRunReturns ==
    /\ call.fn = "pages" /\ call.stage = "run"
    /\ call' = [call EXCEPT !.stage = "returned"]
    /\ UNCHANGED << cacheVars, syncVars >>

NextPages == PageRunStarts \/ EnsurePageCalled \/ PageRunReturns

SpecPages == InitWrite /\ [][NextPages]_vars

(***************************************************************************)
(* Properties                                                              *)
(***************************************************************************)
\* the run of invocation i has gone through writeBlocks and is about to return
Completed(i) == pc[i] = "ending" /\ result = "success"

\* the positions of the top-level records of a page that carry the ical-id id
RecordsWithId(tree, id) == { k \in 1..Len(tree) : extractICalIdFromNode(tree[k]) = id }

\* the ical-ids found on a page
IdsOn(tree) == { extractICalIdFromNode(tree[k]) : k \in 1..Len(tree) } \ { Null }

\* the identities the run desires at a page
DesiredIdsAt(swb, pagePrefix, pageName) ==
    { swb[k].event.uid : k \in { j \in 1..Len(swb) : PageOf(swb[j], pagePrefix) = pageName } }

\* C1: a writeBlocks run that repeats the desired input of the completed run
\* before it, on the store that run left, issues no store mutation at all
\* (no createPage, createBlock, updateBlock, deleteBlock), whatever the batch
\* size and however many events of the input share an identity.
C1_SecondRunIssuesNoMutation ==
    \A i \in Invocations :
        (Completed(i) /\ repeat) => TotalMutations(mutations) = 0

\* C2: when the sorted desired list holds two or more events of one identity,
\* the page of that identity holds, after a completed run, exactly one record
\* with that ical-id and its root text is the text built from the first of
\* them in sort order, whichever batches the duplicates fell into.
C2_FirstDuplicateWins ==
    \A i \in Invocations :
        Completed(i) =>
            \A k \in 1..Len(sorted) :
                LET X == sorted[k].event.uid
                    occ == { j \in 1..Len(sorted) : sorted[j].event.uid = X }
                    first == CHOOSE j \in occ : \A m \in occ : j <= m
                    page == PageOf(sorted[first], settings.pagePrefix)
                IN  Cardinality(occ) >= 2 =>
                        /\ page \in DOMAIN pages
                        /\ Cardinality(RecordsWithId(pages[page], X)) = 1
                        /\ \A r \in RecordsWithId(pages[page], X) :
                              pages[page][r].text = sorted[first].block.text

\* C3: at most one syncCalendars invocation is past the in-progress guard at
\* any time; while the guard is set an idle invocation cannot get past it, and
\* the invocation that is turned away fetches nothing, leaves the store and
\* the guard as they are and is not kept to run later (it stays idle).
C3_SingleRunAtATime ==
    /\ [](Cardinality({ i \in Invocations : pc[i] # "idle" }) <= 1)
    /\ [][ /\ \A i \in Invocations :
                 (syncInProgress /\ pc[i] = "idle") => pc'[i] = "idle"
           /\ (result' = "rejected" /\ result # "rejected") =>
                 UNCHANGED << pages, pageUidCache, syncInProgress, pc, fetchVars,
                              writeVars, histVars >> ]_vars

\* C3, its case: a second invocation was turned away while a run is writing
C3_RejectedWhileWriting ==
    \E i, j \in Invocations :
        i # j /\ pc[i] = "writing" /\ pc[j] = "idle" /\ result = "rejected"

\* C4: whenever a run that set syncInProgress ends (after writeBlocks returned,
\* by the early return when no calendar could be loaded, or by an exception),
\* syncInProgress is false afterwards and the next request passes the guard.
C4_GuardReleased ==
    /\ []((\A i \in Invocations : pc[i] = "idle") =>
             (~syncInProgress /\ \A j \in Invocations :
                                    ~GuardRejects(syncInProgress, TriggerOf(j))))
    /\ [][ \A i \in Invocations :
              (pc[i] = "ending" /\ pc'[i] = "idle") =>
                 (syncInProgress /\ ~syncInProgress') ]_vars

\* C4, its case: a run whose writeBlocks threw has ended and the guard is free
C4_IdleAfterFailedRun ==
    /\ \A i \in Invocations : pc[i] = "idle"
    /\ Len(lastInput) > 0
    /\ ~lastCompleted
    /\ ~syncInProgress

\* C5: after a completed run every target page holds at most one top-level
\* record per ical-id, also when the page held several records of one ical-id
\* before the run.
C5_OneRecordPerId ==
    \A i \in Invocations :
        Completed(i) =>
            \A page \in TargetPages(sorted, settings.pagePrefix) :
                /\ page \in DOMAIN pages
                /\ \A id \in IdsOn(pages[page]) :
                      Cardinality(RecordsWithId(pages[page], id)) = 1

\* C6: at the end of a completed run no page that was reconciled in the run
\* holds a record whose ical-id is not among the identities the run desires at
\* that page.
C6_NoStaleRecordOnReconciledPage ==
    \A i \in Invocations :
        Completed(i) =>
            \A page \in DOMAIN pageUidCache :
                IdsOn(pages[page]) \subseteq
                    DesiredIdsAt(sorted, settings.pagePrefix, page)

\* C7: after a completed run every page whose title starts with the prefix and
\* which is no target page of the run holds no record any more.
C7_NonTargetPagesAreEmptied ==
    \A i \in Invocations :
        Completed(i) =>
            \A title \in getPageTitlesStartingWithPrefix(pages, settings.pagePrefix)
                            \ TargetPages(sorted, settings.pagePrefix) :
                IdsOn(pages[title]) = {}

\* C8: when a store operation throws while one page is being reconciled, the
\* other target pages of the run are reconciled all the same before it ends.
C8_OtherPagesStillReconciled ==
    \A i \in Invocations :
        (pc[i] = "ending" /\ failedPages # {}) =>
            (TargetPages(sorted, settings.pagePrefix) \ failedPages)
                \subseteq DOMAIN pageUidCache

RECURSIVE SucceededSources(_, _)
\* the configured sources whose fetch succeeded, in configuration order
SucceededSources(configs, log) ==
    IF log = <<>> THEN <<>>
    ELSE (IF Head(log) THEN << Head(configs) >> ELSE <<>>)
         \o SucceededSources(Tail(configs), Tail(log))

\* C9: fetchAllCalendars attempts the sources one by one in configuration
\* order, a failed source does not stop it and it never throws: a run leaves
\* the fetch only when all n sources were attempted; the calendars collected
\* are exactly the sources that answered, in configuration order, and together
\* with the failure count they account for every source attempted; what it
\* returns has stats.total = n and calendars.length + stats.failed = n.
C9_PerSourceIsolation ==
    \A i \in Invocations :
        pc[i] # "idle" =>
            LET configs == settings.calendars
                n == Len(configs)
                loaded == SucceededSources(configs, fetchLog)
            IN  /\ Len(fetchLog) = fetchIdx - 1
                /\ fetchIdx <= n + 1
                /\ Len(fetched.calendars) + fetched.failed = fetchIdx - 1
                /\ Len(fetched.calendars) = Len(loaded)
                /\ \A k \in 1..Len(loaded) :
                      /\ fetched.calendars[k].name = loaded[k].name
                      /\ fetched.calendars[k].url = loaded[k].url
                /\ (pc[i] = "fetching" /\ fetchIdx <= n) => ENABLED FetchOne(i)
                /\ pc[i] # "fetching" =>
                      /\ fetchIdx = n + 1
                      /\ FetchStats(configs, fetched).total = n
                      /\ Len(fetched.calendars) + FetchStats(configs, fetched).failed = n

\* C9, its case: the first source failed, the second was fetched after it and
\* is the only calendar returned
C9_SecondSourceLoadedAfterFailure ==
    \E i \in Invocations :
        /\ pc[i] = "writing"
        /\ fetchLog = << FALSE, TRUE >>
        /\ Len(fetched.calendars) = 1
        /\ fetched.calendars[1].name = CalHome.name
        /\ fetched.failed = 1

\* C10: when the host supplies no proxy address the run ends with the error
\* status, and the failure is not turned into per-source failure counts.
C10_MissingProxyIsOneError ==
    \A i \in Invocations :
        (pc[i] = "ending" /\ ~proxyUrl) => (result = "error" /\ fetched.failed = 0)

\* the step is a call of fetchICalCalendar that reached the server
FetchStep == call'.fn = "fetchICalCalendar" /\ clock' # clock /\ proxyUrl

\* C11: when the server answers 304 and the calendar cache holds an entry for the URL, the
\* fetch returns changed = false, cached = true and an empty content, the entry keeps its
\* etag, lastModified and contentHash, and fetchICalCalendar returns, without parsing, the
\* events of the latest changed fetch of that URL.
C11_NotModifiedShortCircuit ==
    [][ (/\ FetchStep
         /\ call'.response.status = 304
         /\ call'.config.url \in DOMAIN calendarCache)
        => LET url == call'.config.url
               r == call'.result
           IN  /\ ~r.threw /\ ~r.changed /\ r.cached /\ r.content = <<>>
               /\ calendarCache'[url].etag = calendarCache[url].etag
               /\ calendarCache'[url].lastModified = calendarCache[url].lastModified
               /\ calendarCache'[url].contentHash = calendarCache[url].contentHash
               /\ ~r.parsed
               /\ url \in DOMAIN changedEvents
               /\ r.events = changedEvents[url] ]_vars

\* a 304 was answered from the caches with the events of an earlier fetch
C11_ServedFromCache ==
    /\ call.fn = "fetchICalCalendar"
    /\ call.response.status = 304
    /\ call.result.cached
    /\ Len(call.result.events) > 0

\* C12: of two successive full responses for one URL, the second is reported unchanged
\* exactly when the hash of its content equals the hash of the content of the first,
\* whatever ETag or Last-Modified the server sent; a fetch of a URL that has no cache
\* entry is always reported changed.
C12_ChangeIsHashInequality ==
    [][ (/\ FetchStep
         /\ ResponseOk(call'.response))
        => /\ (/\ call.fn = "fetchICalCalendar"
               /\ ~call.result.threw
               /\ ResponseOk(call.response)
               /\ call.config.url = call'.config.url)
              => (~call'.result.changed
                    <=> hashContent(call'.response.body) = hashContent(call.response.body))
           /\ call'.config.url \notin DOMAIN calendarCache => call'.result.changed ]_vars

\* a second full response with the same content and no caching header was reported unchanged
C12_UnchangedWithoutHeaders ==
    /\ call.fn = "fetchICalCalendar"
    /\ ResponseOk(call.response)
    /\ call.response.etag = Null /\ call.response.lastModified = Null
    /\ ~call.result.threw /\ ~call.result.changed /\ ~call.result.cached
    /\ call.config.url \in DOMAIN calendarCache
    /\ calendarCache[call.config.url].etag = Null

\* C13: with forceRefresh = true the request carries neither If-None-Match nor
\* If-Modified-Since, and fetchICalCalendar returns, for a given answer of the server, the
\* changed flag and the events it returns on empty caches, whatever the caches hold.
C13_ForceRefreshIgnoresCaches ==
    [][ (/\ FetchStep
         /\ call'.forceRefresh)
        => LET fresh == fetchICalCalendar(proxyUrl, EmptyMap, EmptyMap, call'.config, TRUE,
                                          call'.response, clock')
           IN  /\ call'.headers.ifNoneMatch = Null
               /\ call'.headers.ifModifiedSince = Null
               /\ call'.result.threw = fresh.threw
               /\ call'.result.changed = fresh.changed
               /\ call'.result.events = fresh.events ]_vars

\* C14: every desired event is reconciled at the page computed from the prefix, the name
\* of the calendar it was fetched from and its uid: after a completed run each event given
\* to writeBlocks and not excluded has a record on the page of its own calendar, also when
\* another calendar of the run holds an event with the same uid.
C14_WrittenUnderOwnCalendar ==
    \A i \in Invocations :
        Completed(i) =>
            \A c \in 1..Len(lastInput) :
                \A e \in 1..Len(lastInput[c].events) :
                    LET ev == lastInput[c].events[e]
                        page == resolveEventPageName(ev, lastInput[c].name,
                                                     settings.pagePrefix)
                    IN  ~shouldExcludeEvent(ev.summary, settings.excludePatterns) =>
                            /\ page \in DOMAIN pages
                            /\ RecordsWithId(pages[page], ev.uid) # {}

\* C15: the page a record is written to is <prefix>/<sanitized calendar name>/<hashEventId
\* of the uid>, the calendar segment being the display name lowercased, its whitespace
\* turned into hyphens and its other non-alphanumeric characters stripped.
C15_PagePathUsesSanitizedName ==
    \A i \in Invocations :
        Completed(i) =>
            \A k \in 1..Len(sorted) :
                LET page == << settings.pagePrefix, sanitizeTagName(sorted[k].calendarName),
                               hashEventId(sorted[k].event.uid) >>
                IN  /\ page \in DOMAIN pages
                    /\ RecordsWithId(pages[page], sorted[k].event.uid) # {}

RECURSIVE TotalRecords(_, _, _)
\* the number of records with the ical-id id on the pages of titles
TotalRecords(store, titles, id) ==
    IF titles = {} THEN 0
    ELSE LET t == CHOOSE x \in titles : TRUE
         IN  Cardinality(RecordsWithId(store[t], id)) + TotalRecords(store, titles \ { t }, id)

\* the children of a node that are an ical-id property
IdChildren(node) ==
    { k \in 1..Len(node.children) : extractPropertyKey(node.children[k].text) = ICAL_ID_PROPERTY }

\* the step is a writeBlocks call that desires an event with uid X of calendar name
DesiredIn(c, name, X) ==
    /\ c.fn = "writeBlocks"
    /\ c.calendars[1].name = name
    /\ \E k \in 1..Len(c.calendars[1].events) : c.calendars[1].events[k].uid = X

\* every record on a page has exactly one ical-id child, and every desired event has a
\* record on its page whose ical-id child holds its uid
OneIdChildEach ==
    call.fn = "writeBlocks" =>
        /\ \A t \in DOMAIN pages : \A k \in 1..Len(pages[t]) :
              Cardinality(IdChildren(pages[t][k])) = 1
        /\ \A e \in 1..Len(call.calendars[1].events) :
              LET ev == call.calendars[1].events[e]
                  page == resolveEventPageName(ev, call.calendars[1].name,
                                               settings.pagePrefix)
              IN  /\ page \in DOMAIN pages
                  /\ \E k \in 1..Len(pages[page]) :
                        \A c \in IdChildren(pages[page][k]) :
                            pages[page][k].children[c].text = << ICAL_ID_PROPERTY, ev.uid >>

MatchesAny(title, patterns) == \E k \in 1..Len(patterns) : RegexTest(patterns[k], title)

\* C17: for a non-empty list of patterns filterExcludedEvents returns, in input order,
\* exactly the events whose title matches none of the patterns, for every title; with an
\* empty list it returns its input unchanged.
C17_KeepsExactlyTheUnmatched ==
    call.fn = "filterExcludedEvents" =>
        IF Len(call.patterns) = 0 THEN call.result = call.events
        ELSE call.result
                = SelectSeq(call.events, LAMBDA e : ~MatchesAny(e.summary, call.patterns))

\* C18: isEventInDateRange is true exactly when the effective date d of the event (dtstart,
\* else dtend) is on one of the days today - daysPast .. today + daysFuture, i.e.
\* startOfDay(now) - daysPast days <= d < startOfDay(now) + (daysFuture + 1) days: the first
\* instant of the first day and the last instant of the last day are in, the instants next
\* to them are out, and an event with no date is out.
C18_DateWindow ==
    call.fn = "isEventInDateRange" =>
        LET d == IF call.event.dtstart # NoDate THEN call.event.dtstart ELSE call.event.dtend
            lower == (Today - call.daysPast) * TicksPerDay
            upper == (Today + call.daysFuture + 1) * TicksPerDay
        IN  /\ call.result <=> (d # NoDate /\ lower <= d /\ d < upper)
            /\ d = lower => call.result
            /\ d = lower - 1 => ~call.result
            /\ d = upper - 1 => call.result
            /\ d = upper => ~call.result
            /\ (d # NoDate /\ call.result)
                  => (d \div TicksPerDay) \in (Today - call.daysPast)..(Today + call.daysFuture)

\* an event at the last instant of the last day of the window, taken from dtend, is in
C18_LastInstantIncluded ==
    /\ call.fn = "isEventInDateRange"
    /\ call.event.dtstart = NoDate
    /\ call.event.dtend = (Today + call.daysFuture + 1) * TicksPerDay - 1
    /\ call.daysFuture = SyncDaysFuture
    /\ call.result

\* the number of positions of q that hold x
Occurrences(q, x) == Cardinality({ k \in 1..Len(q) : q[k] = x })

\* C19: sortEventsByDateDescending returns a permutation of its input and leaves the input
\* as it was; in the result every event with an effective date precedes every event with
\* none, and the dated events are in non-increasing order of effective date.
C19_SortedPermutation ==
    call.fn = "sortEventsByDateDescending" =>
        /\ call.eventsAfter = call.events
        /\ Len(call.result) = Len(call.events)
        /\ \A x \in DatedEvents : Occurrences(call.result, x) = Occurrences(call.events, x)
        /\ \A j, k \in 1..Len(call.result) :
              j < k =>
                LET dj == IF call.result[j].dtstart # NoDate THEN call.result[j].dtstart
                          ELSE call.result[j].dtend
                    dk == IF call.result[k].dtstart # NoDate THEN call.result[k].dtstart
                          ELSE call.result[k].dtend
                IN  /\ dj = NoDate => dk = NoDate
                    /\ (dj # NoDate /\ dk # NoDate) => dj >= dk

\* an undated event given first and two dated events given oldest first were reordered
C19_UndatedMovedLast ==
    /\ call.fn = "sortEventsByDateDescending"
    /\ Len(call.events) = 3
    /\ call.events[1].dtstart = NoDate /\ call.events[1].dtend = NoDate
    /\ call.events[2] = EvOld
    /\ call.events[3] = EvA2
    /\ call.result[1] = EvA2
    /\ call.result[3].dtstart = NoDate

\* C20: parseICalContent never rejects; when the text as a whole does not parse it returns
\* no event; otherwise it returns, in feed order, exactly the sub-events that convert
\* without error and have a non-empty uid, the others being skipped.
C20_ParsingDegradesPerEvent ==
    call.fn = "parseICalContent" =>
        LET good == SelectSeq(call.content,
                              LAMBDA v : v \in { "a", "b" })
        IN  /\ ~call.result.rejected
            /\ (\E k \in 1..Len(call.content) : call.content[k] = "!")
                  => call.result.events = <<>>
            /\ (\A k \in 1..Len(call.content) : call.content[k] # "!")
                  => /\ Len(call.result.events) = Len(good)
                     /\ \A k \in 1..Len(good) :
                           call.result.events[k].uid = good[k]

\* a sub-event that fails between two that convert is skipped and both others are returned
C20_FailureBetweenTwoEvents ==
    /\ call.fn = "parseICalContent"
    /\ call.content = << "a", "x", "b" >>
    /\ Len(call.result.events) = 2

\* bit k of x
BitOf(x, k) == (x \div (2 ^ k)) % 2

\* exclusive or of two bytes
XorByte(x, y) ==
    LET bit(k) == ((BitOf(x, k) + BitOf(y, k)) % 2) * (2 ^ k)
    IN  bit(0) + bit(1) + bit(2) + bit(3) + bit(4) + bit(5) + bit(6) + bit(7)

\* one FNV-1a step on a 32-bit word kept as four bytes <<b3, b2, b1, b0>>: the code unit
\* is mixed into the two low bytes, then the word is multiplied by 2^24 + 403 modulo 2^32
ByteStep(h, c) ==
    LET x0 == XorByte(h[4], c % 256)
        x1 == XorByte(h[3], (c \div 256) % 256)
        m0 == x0 * 403
        m1 == x1 * 403 + (m0 \div 256)
        m2 == h[2] * 403 + (m1 \div 256)
        m3 == h[1] * 403 + (m2 \div 256) + x0
    IN  << m3 % 256, m2 % 256, m1 % 256, m0 % 256 >>

RECURSIVE ByteFold(_, _)
ByteFold(h, codes) ==
    IF codes = <<>> THEN h ELSE ByteFold(ByteStep(h, Head(codes)), Tail(codes))

\* the unsigned 32-bit FNV-1a hash of the code units, offset basis 0x811c9dc5, as bytes
ByteHash(codes) == ByteFold(<< 129, 28, 157, 197 >>, codes)

RECURSIVE BytesOfDigits(_, _)
\* the value of a sequence of base-36 digits, as bytes, modulo 2^32
BytesOfDigits(digits, acc) ==
    IF digits = <<>> THEN acc
    ELSE LET m0 == acc[4] * 36 + Head(digits)
             m1 == acc[3] * 36 + (m0 \div 256)
             m2 == acc[2] * 36 + (m1 \div 256)
             m3 == acc[1] * 36 + (m2 \div 256)
         IN  BytesOfDigits(Tail(digits), << m3 % 256, m2 % 256, m1 % 256, m0 % 256 >>)

\* digits is the base-36 form of the 32-bit word: digits 0-9a-z, no leading zero, at most
\* seven of them, and their value is the word
IsBase36Of(digits, bytes) ==
    /\ Len(digits) \in 1..7
    /\ \A k \in 1..Len(digits) : digits[k] \in 0..35
    /\ Len(digits) > 1 => digits[1] # 0
    /\ BytesOfDigits(digits, << 0, 0, 0, 0 >>) = bytes

IsAlphanumeric(c) == c \in { "A", "a", "1" }

\* C22: sanitizing a calendar name is idempotent, and the segment it yields is non-empty
\* for every name that holds at least one alphanumeric character: it is empty only if the
\* name holds none.
C22_SanitizeIdempotentNonEmpty ==
    call.fn = "sanitizeTagName" =>
        /\ call.twice = call.result
        /\ (\E k \in 1..Len(call.chars) : IsAlphanumeric(call.chars[k])) => call.result # <<>>
        /\ call.result = <<>> => \A k \in 1..Len(call.chars) : ~IsAlphanumeric(call.chars[k])

\* a name with a leading blank, punctuation and an upper-case letter became one letter
C22_NameReducedToItsLetter ==
    /\ call.fn = "sanitizeTagName"
    /\ call.chars = << " ", "!", "A" >>
    /\ call.result = << "a" >>

\* the positions in the provider list of the patterns that match somewhere in the text
MatchingPatterns(text) ==
    { p \in 1..Len(MEETING_URL_PATTERNS) :
        \E k \in 1..Len(text) : text[k].host = MEETING_URL_PATTERNS[p].host }

\* the least element of a non-empty set of numbers
Least(S) == CHOOSE x \in S : \A y \in S : x <= y

\* C23: the meetingUrl of an event is taken from the first of location, description and
\* url in which any provider pattern matches; within one text the match of the earliest
\* pattern of the provider list is returned, wherever the links stand in the text; when
\* nothing matches the field is unset; extractMeetingUrlWithService returns the same url
\* with the name of the pattern that matched.
C23_MeetingLinkSelection ==
    /\ call.fn = "extractMeetingUrl" =>
          LET P == MatchingPatterns(call.text)
          IN  IF P = {}
              THEN ~call.result.found /\ ~call.withService.found
              ELSE /\ call.result.found
                   /\ call.result.url.host = MEETING_URL_PATTERNS[Least(P)].host
                   /\ \E k \in 1..Len(call.text) : call.text[k] = call.result.url
                   /\ call.withService.found
                   /\ call.withService.url = call.result.url
                   /\ call.withService.service = MEETING_URL_PATTERNS[Least(P)].name
    /\ call.fn = "meetingUrl" =>
          LET F == { f \in 1..3 : MatchingPatterns(call.fields[f]) # {} }
          IN  IF F = {} THEN ~call.result.found
              ELSE LET text == call.fields[Least(F)]
                   IN  /\ call.result.found
                       /\ call.result.url.host
                             = MEETING_URL_PATTERNS[Least(MatchingPatterns(text))].host
                       /\ \E k \in 1..Len(text) : text[k] = call.result.url

\* a Zoom link standing after a Google Meet link in the text was the one returned
C23_EarlierPatternBeatsEarlierLink ==
    /\ call.fn = "extractMeetingUrl"
    /\ call.text = << [host |-> "meet.google.com", id |-> 1], PlainWord,
                      [host |-> "zoom.us", id |-> 2] >>
    /\ call.result.found
    /\ call.result.url = [host |-> "zoom.us", id |-> 2]
    /\ call.withService.service = "Zoom"

\* the first token of the line that is not whitespace ("" for a blank line)
FirstMark(line) ==
    LET inked == { k \in 1..Len(line) : line[k] # " " }
    IN  IF inked = {} THEN "" ELSE line[Least(inked)]

\* the line is neither blank nor a comment
IsEntry(line) == FirstMark(line) \notin { "", "#", "//" }

\* the line from its first to its last token that is not whitespace
Core(line) ==
    LET inked == { k \in 1..Len(line) : line[k] # " " }
    IN  IF inked = {} THEN <<>>
        ELSE SubSeq(line, Least(inked), CHOOSE k \in inked : \A m \in inked : m <= k)

\* the text is an http or https URL: the URL token and words after it, nothing else
IsHttpUrl(text) == Len(text) >= 1 /\ text[1] = "U" /\ \A k \in 2..Len(text) : text[k] = "n"

\* the position of the first | of the line, 0 if it has none
FirstPipe(line) ==
    IF \E k \in 1..Len(line) : line[k] = "|"
    THEN Least({ k \in 1..Len(line) : line[k] = "|" }) ELSE 0

\* what stands before the first | and what stands after it, without the blanks around
NamePart(line) == Core(SubSeq(line, 1, FirstPipe(line) - 1))
UrlPart(line) ==
    IF FirstPipe(line) = 0 THEN Core(line)
    ELSE Core(SubSeq(line, FirstPipe(line) + 1, Len(line)))

\* the line holds a valid http/https URL and, if it has a |, a name before it
IsWellFormed(line) ==
    /\ IsHttpUrl(UrlPart(line))
    /\ FirstPipe(line) # 0 => NamePart(line) # <<>>

\* C24: parseCalendarsConfig classifies every line that is neither blank nor a comment
\* (first mark # or //) as exactly one calendar or exactly one error, so calendars and
\* errors together are as many as those lines; a line yields a calendar only if its url is
\* a valid http/https URL and, when it has a |, its name is not empty; the calendars keep
\* the order of the lines; the function never throws.
C24_EveryEntryLineClassified ==
    call.fn = "parseCalendarsConfig" =>
        LET entries == SelectSeq(call.lines, IsEntry)
            good == SelectSeq(entries, IsWellFormed)
            r == call.result
        IN  /\ ~r.threw
            /\ Len(r.calendars) + Len(r.errors) = Len(entries)
            /\ Len(r.calendars) = Len(good)
            /\ \A k \in 1..Len(good) :
                  /\ r.calendars[k].url = UrlPart(good[k])
                  /\ r.calendars[k].name # <<>>
                  /\ FirstPipe(good[k]) # 0 => r.calendars[k].name = NamePart(good[k])

\* a comment, a named calendar with blanks around its parts and a line with an empty name
\* gave one calendar and one error
C24_CommentCalendarError ==
    /\ call.fn = "parseCalendarsConfig"
    /\ call.lines = << << " ", "//", "U" >>,
                       << " ", "n", " ", "|", " ", "U", "n", " " >>,
                       << "|", "U" >> >>
    /\ call.result.calendars = << [name |-> << "n" >>, url |-> << "U", "n" >>] >>
    /\ Len(call.result.errors) = 1

\* C25: a top-level block of a target page from which no ical-id can be extracted, neither
\* from its text nor from its children, is never updated by reconciliation and is deleted
\* by the stale sweep of that page: after a run no page the run reconciled holds such a
\* block.
C25_IdlessBlockSwept ==
    call.fn = "writeBlocks" =>
        \A page \in DOMAIN pageUidCache :
            \A k \in 1..Len(pages[page]) : extractICalIdFromNode(pages[page][k]) # Null

\* the waits of a trace, in order
WaitsOf(log) ==
    LET waits == SelectSeq(log, LAMBDA e : e.op = "delay") IN [k \in 1..Len(waits) |-> waits[k].n]

LookupsOf(log) == Len(SelectSeq(log, LAMBDA e : e.op = "getPageUidByPageTitle"))

\* the lookups of a trace are at most maxRetries + 1, its waits double from
\* MUTATION_DELAY_MS, and no wait comes last
RetryLoopBounded(log, maxRetries) ==
    /\ LookupsOf(log) <= maxRetries + 1
    /\ \A k \in 1..Len(WaitsOf(log)) : WaitsOf(log)[k] = MUTATION_DELAY_MS * Pow2(k - 1)
    /\ log # <<>> => log[Len(log)].op # "delay"

\* a store call that threw had been made more than once, with waits between the attempts
FailedCallWasRetried(r) ==
    r.threw => r.attempts > 1 /\ WaitsOf(r.log) # <<>>

\* C26: a create, update or delete that fails because its target is not there yet is
\* retried, with waits that double from a fixed base and a capped number of attempts, before
\* the failure surfaces; the retry loop ends after at most maxRetries + 1 lookups with no
\* wait after the last one.
C26_RetryOnLateTarget ==
    /\ call.fn = "findPageUidWithRetry" =>
          RetryLoopBounded(call.result.log, call.maxRetries)
    /\ call.fn = "ensurePage" /\ call.error = "already exists" =>
          RetryLoopBounded(SelectSeq(call.result.log, LAMBDA e : e.op # "createPage"),
                           ENSURE_PAGE_RETRIES)
    /\ call.fn = "storeCall" /\ call.error = "not found" =>
          FailedCallWasRetried(call.result)

KeyOf(child) == extractPropertyKey(child.text)

KeysOf(children) == { KeyOf(children[k]) : k \in 1..Len(children) } \ { Null }

\* C27: syncChildren never deletes a child: every existing child whose key is not among
\* the desired ones is still there, at its place and with its text; a child that changed
\* has the key it had and the desired text of that key; a child that was added has a
\* desired key that no existing child had; and the store calls made are exactly these
\* updates and creations.
C27_ChildrenNeverDeleted ==
    call.fn = "syncChildren" =>
        LET old == call.existing
            new == call.result.children
            desired == call.newChildren
            changed == { k \in 1..Len(old) : new[k].text # old[k].text }
        IN  /\ Len(new) >= Len(old)
            /\ \A k \in 1..Len(old) :
                  /\ KeyOf(new[k]) = KeyOf(old[k])
                  /\ new[k].children = old[k].children
                  /\ KeyOf(old[k]) \notin KeysOf(desired) => new[k] = old[k]
            /\ \A k \in changed :
                  \E d \in 1..Len(desired) :
                      KeyOf(desired[d]) = KeyOf(old[k]) /\ new[k].text = desired[d].text
            /\ \A k \in (Len(old) + 1)..Len(new) :
                  /\ KeyOf(new[k]) \notin KeysOf(old)
                  /\ \E d \in 1..Len(desired) : new[k] = toInputNode(desired[d])
            /\ call.result.mut.updateBlock = Cardinality(changed)
            /\ call.result.mut.createBlock = Len(new) - Len(old)
            /\ call.result.mut.deleteBlock = 0

\* a record with a property and a plain block of the user whose event lost its location:
\* the stale location and the user's blocks stayed, the id was appended
C27_UserChildrenKept ==
    /\ call.fn = "syncChildren"
    /\ call.existing = << createPropertyBlock("tags", "x"), UserNote,
                          createPropertyBlock(ICAL_LOCATION_PROPERTY, "Room 1") >>
    /\ call.newChildren = << createPropertyBlock(ICAL_ID_PROPERTY, "a") >>
    /\ call.result.children = << createPropertyBlock("tags", "x"), UserNote,
                                 createPropertyBlock(ICAL_LOCATION_PROPERTY, "Room 1"),
                                 createPropertyBlock(ICAL_ID_PROPERTY, "a") >>

\* the events of the two calls are the same but for the title of one of them
TitleOnlyChange(before, after) ==
    /\ Len(after) = Len(before)
    /\ \E k \in 1..Len(before) :
          /\ after[k].summary # before[k].summary
          /\ after[k] = [before[k] EXCEPT !.summary = after[k].summary]
          /\ \A j \in 1..Len(before) : j # k => after[j] = before[j]

\* the calls of the Roam API in a trace
StoreCallsOf(log) ==
    SelectSeq(log, LAMBDA e : e.op \in { "createPage", "createBlock", "updateBlock",
                                          "deleteBlock" })

\* C28: when between two completed runs only the title of one event changes (same
\* identity, dates and other fields, same calendar, same configuration), the second run
\* issues exactly one updateBlock, on the root of that event's record, and no createPage,
\* createBlock or deleteBlock.
C28_TitleChangeIsOneUpdate ==
    [][ (/\ call.fn = "writeBlocks" /\ call'.fn = "writeBlocks"
         /\ call'.calendars[1].name = call.calendars[1].name
         /\ call'.batchSize = call.batchSize
         /\ call'.batchDelayMs = call.batchDelayMs
         /\ call'.titlePrefix = call.titlePrefix
         /\ TitleOnlyChange(call.calendars[1].events, call'.calendars[1].events))
        => /\ mutations' = [NoMutations EXCEPT !.updateBlock = 1]
           /\ StoreCallsOf(call'.log) = << Entry("updateBlock", "root", 0, 0) >>
      ]_vars

\* the positions of the entries of an operation in a trace
PositionsOf(log, op) == { i \in 1..Len(log) : log[i].op = op }

\* the k-th smallest element of a set of numbers
Nth(S, k) == CHOOSE x \in S : Cardinality({ y \in S : y <= x }) = k

\* C29: writeBlocks handles the sorted events in consecutive batches of batchSize; the
\* progress observer is called once per batch with (processed, total), processed being
\* the number of events handled so far, so strictly increasing and equal to total on the
\* last call; the delay between batches is taken after every batch but the last; the
\* sweep of the other pages starts only after the last batch.
C29_BatchesAndProgress ==
    call.fn = "writeBlocks" =>
        LET log == call.log
            total == Len(filterExcludedEvents(call.calendars[1].events,
                                              settings.excludePatterns))
            batches == (total + call.batchSize - 1) \div call.batchSize
            calls == PositionsOf(log, "onProgress")
            sweeps == PositionsOf(log, "cleanupObsoletePages")
            rests == { i \in PositionsOf(log, "delay") : log[i].n = call.batchDelayMs }
        IN  /\ Cardinality(calls) = batches
            /\ \A k \in 1..batches :
                  LET i == Nth(calls, k)
                  IN  /\ log[i].total = total
                      /\ log[i].n = IF k < batches THEN k * call.batchSize ELSE total
                      /\ k > 1 => log[i].n > log[Nth(calls, k - 1)].n
                      /\ k < batches /\ call.batchDelayMs > 0 =>
                            log[i + 1] = Entry("delay", "-", call.batchDelayMs, 0)
                      /\ k = batches => log[i + 1].op = "cleanupObsoletePages"
            /\ Cardinality(rests) = IF batches > 0 /\ call.batchDelayMs > 0
                                     THEN batches - 1 ELSE 0
            /\ Cardinality(sweeps) = 1
            /\ \A i \in calls, j \in sweeps : i < j
            /\ \A j \in sweeps : \A i \in (j + 1)..Len(log) :
                  log[i].op \in { "deleteBlock", "delay" }

\* three events in batches of two with a delay between batches: the observer was called
\* with (2, 3), the delay was taken, the observer was called with (3, 3), the sweep began
C29_TwoBatchesOfThreeEvents ==
    /\ call.fn = "writeBlocks"
    /\ Len(call.calendars[1].events) = 3
    /\ call.batchSize = 2
    /\ call.batchDelayMs = DEFAULT_BATCH_DELAY_MS
    /\ \E i \in 1..(Len(call.log) - 1) :
          /\ call.log[i] = Entry("onProgress", "-", 2, 3)
          /\ call.log[i + 1] = Entry("delay", "-", DEFAULT_BATCH_DELAY_MS, 0)
    /\ \E i \in 1..(Len(call.log) - 1) :
          /\ call.log[i] = Entry("onProgress", "-", 3, 3)
          /\ call.log[i + 1] = Entry("cleanupObsoletePages", "-", 0, 0)

IsStoreCall(e) == e.op \in { "createPage", "createBlock", "updateBlock", "deleteBlock" }

\* C30: the store mutations of a run happen one after the other, and between the end of
\* one (createPage, createBlock, updateBlock, deleteBlock) and the start of the next a
\* delay of MUTATION_DELAY_MS has elapsed; in the code the delay directly follows the
\* call.
C30_MutationsThrottled ==
    call.fn = "writeBlocks" =>
        /\ \A i, j \in 1..Len(call.log) :
              (i < j /\ IsStoreCall(call.log[i]) /\ IsStoreCall(call.log[j]))
              => \E k \in (i + 1)..(j - 1) :
                     call.log[k].op = "delay" /\ call.log[k].n >= MUTATION_DELAY_MS
        /\ \A i \in 1..Len(call.log) :
              IsStoreCall(call.log[i])
              => i < Len(call.log)
                 /\ call.log[i + 1] = Entry("delay", "-", MUTATION_DELAY_MS, 0)

\* a run rewrote the root of a record and deleted a stale record of the same page, and
\* waited after each of the two calls
C30_UpdateWaitDeleteWait ==
    /\ call.fn = "writeBlocks"
    /\ \E i \in 1..(Len(call.log) - 3) :
          /\ call.log[i] = Entry("updateBlock", "root", 0, 0)
          /\ call.log[i + 1] = Entry("delay", "-", MUTATION_DELAY_MS, 0)
          /\ call.log[i + 2] = Entry("deleteBlock", "root", 0, 0)
          /\ call.log[i + 3] = Entry("delay", "-", MUTATION_DELAY_MS, 0)

\* the pages of the events the batch loop has handled so far
PagesHandled ==
    { PageOf(sorted[k], settings.pagePrefix) :
        k \in 1..(IF batchStart < Len(sorted) THEN batchStart ELSE Len(sorted)) }

\* C31: pageUidCache is empty when a writeBlocks run starts reconciling, and during the
\* run its entries are the pages this run has ensured so far, each with the uid of the
\* page of that name: nothing an earlier run cached is in it.
C31_PageCacheIsRunScoped ==
    /\ [][ \A i \in Invocations :
             (pc[i] = "fetching" /\ pc'[i] \in { "writing", "sweeping" })
             => pageUidCache' = EmptyMap ]_vars
    /\ [](\A i \in Invocations :
             pc[i] \in { "writing", "sweeping" }
             => /\ DOMAIN pageUidCache = PagesHandled
                /\ \A name \in DOMAIN pageUidCache :
                      name \in DOMAIN pages /\ pageUidCache[name] = PageUid(name))

\* a later run has handled its first batch: the graph holds a page an earlier run wrote
\* and the cache holds only the page of this run
C31_EarlierPageNotCached ==
    \E i \in Invocations :
        /\ pc[i] = "writing"
        /\ batchStart > 0
        /\ pageUidCache # EmptyMap
        /\ DOMAIN pages \ DOMAIN pageUidCache # {}

\* C32: at most one feed is being fetched or parsed at any time, and the fetch of a
\* source is issued only when the fetch and parse of every source before it has
\* completed or failed.
C32_SourcesOneAtATime ==
    /\ [](call.fn = "fetchAllCalendars" => Cardinality(call.inFlight) <= 1)
    /\ [][ (call.fn = "fetchAllCalendars" /\ call'.fn = "fetchAllCalendars"
             /\ call'.next = call.next + 1)
            => /\ call.inFlight = {}
               /\ Len(call.calendars) + call.failed = call.next - 1 ]_vars

\* the second source is being parsed after the first one failed
C32_SecondParsedAfterFirstFailed ==
    /\ call.fn = "fetchAllCalendars"
    /\ call.failed = 1
    /\ call.parsing = { 2 }
    /\ call.inFlight = { 2 }

\* the contents whose hash is the one the calendar cache holds for the URL
ContentsCachedFor(url) ==
    { text \in FeedTexts : hashContent(text) = calendarCache[url].contentHash }

\* C34: whenever fetchICalCalendar returns changed = false, the events it returns are the
\* events parsed from the content whose hash the calendar cache holds for that URL, which
\* are the events of the latest fetch of the URL that was reported changed: not an empty
\* list in place of content never parsed, not the events of an older content.
C34_UnchangedServesEventsOfCachedContent ==
    (call.fn = "fetchICalCalendar" /\ ~call.result.threw /\ ~call.result.changed)
    => LET url == call.config.url
       IN  /\ url \in DOMAIN calendarCache
           /\ ContentsCachedFor(url) # {}
           /\ \A text \in ContentsCachedFor(url) :
                 call.result.events = parseICalContent(text).events
           /\ url \in DOMAIN changedEvents
           /\ call.result.events = changedEvents[url]

\* the third fetch of the model, a forced one, found the content of event b unchanged by
\* its hash and returned the event
C34_ForcedFetchServedFromEventsCache ==
    /\ call.fn = "fetchICalCalendar"
    /\ clock = MaxFetches
    /\ call.forceRefresh
    /\ ResponseOk(call.response)
    /\ ~call.result.threw /\ ~call.result.changed
    /\ call.result.events = << EvB >>

\* C33: every feed fetch of a run is aborted after a bounded wait when the server does
\* not answer, so every run that started ends and releases the guard.
C33_RunEndsWithSilentServer ==
    (call.fn = "fetchAllCalendars" /\ syncInProgress) ~> ~syncInProgress

\* the names of the configured sources whose fetch failed in the run
FailedSourceNames(configs, log) ==
    { configs[k].name : k \in { j \in 1..Len(log) : ~log[j] } }

\* the pages under the prefix that belong to a source of the given names
PagesOfSources(store, pagePrefix, names) ==
    { title \in getPageTitlesStartingWithPrefix(store, pagePrefix) :
        Len(title) >= 2 /\ title[2] \in names }

\* C35: after a completed run in which at least one source loaded and another one failed,
\* no page of a failed source holds an id-bearing record whose identity the run does not
\* desire from a loaded source: the cross-location sweep has deleted every such record.
C35_FailedSourcePagesAreSwept ==
    \A i \in Invocations :
        (Completed(i) /\ Len(fetched.calendars) >= 1 /\ fetched.failed >= 1) =>
            \A title \in PagesOfSources(pages, settings.pagePrefix,
                                        FailedSourceNames(settings.calendars, fetchLog)) :
                IdsOn(pages[title]) \subseteq CurrentEventIds(sorted)

\* a run is inside writeBlocks
InWriteBlocks == \E i \in Invocations : pc[i] \in {"writing", "sweeping"}

\* C36: a syncCalendars run in which no calendar is configured, or in which every source
\* failed to load, never calls writeBlocks and performs no store mutation: writeBlocks runs
\* only with a configured and a loaded calendar, a run that found nothing loaded ends with
\* all its mutation counters at zero, and every step taken outside writeBlocks leaves every
\* page and every record as it was.
C36_NoMutationWithoutLoadedCalendar ==
    /\ [](InWriteBlocks => (Len(settings.calendars) >= 1 /\ Len(fetched.calendars) >= 1))
    /\ [](\A i \in Invocations :
            (pc[i] = "ending" /\ result = "noneLoaded") => mutations = NoMutations)
    /\ [][(~InWriteBlocks) => (pages' = pages /\ mutations' \in {mutations, NoMutations})]_vars

\* a run in which both configured sources failed is about to return, and the records an
\* earlier run wrote are on their page
C36_AllFailedAfterEarlierWrite ==
    \E i \in Invocations :
        /\ pc[i] = "ending" /\ result = "noneLoaded"
        /\ fetchLog = << FALSE, FALSE >>
        /\ \E title \in DOMAIN pages : IdsOn(pages[title]) # {}

\* C38: between an onload and the next onunload the command and the topbar button are
\* registered at most once, also when onload is called again while an earlier call is
\* still at one of its awaits.
C38_RegisteredAtMostOnce ==
    call.fn = "extension" => (call.commands <= 1 /\ call.buttons <= 1)

\* the least number of batches of batchSize events that hold total events
CeilDiv(total, batchSize) ==
    CHOOSE n \in 0..total : n * batchSize >= total /\ \A m \in 0..(n - 1) : m * batchSize < total

C40_PageCreatedAtMostOncePerRun ==
    /\ [](call.fn = "pages" =>
            \A p \in RunPages :
                /\ call.created[p] <= 1
                /\ Cardinality(call.returned[p]) <= 1)
    /\ [][(call.fn = "pages" /\ call'.fn = "pages" /\ call'.run = call.run) =>
            \A p \in RunPages :
                call.returned[p] # {} =>
                    /\ call'.returned[p] = call.returned[p]
                    /\ call'.lookups[p] = call.lookups[p]
                    /\ call'.created[p] = call.created[p]
                    /\ (call'.calls > call.calls /\ call'.last = p) => call'.stage = "run"]_vars

\* the three ensurePage calls of a run were for the same page, which did not exist: the
\* page was created by the first call and the run made one lookup and one createPage call
C40_ThreeCallsOneCreation ==
    /\ call.fn = "pages" /\ call.calls = MaxEnsureCalls /\ call.stage = "run"
    /\ \E p \in RunPages :
          /\ call.created[p] = 1 /\ call.lookups[p] = 1
          /\ call.returned[p] = { PageUid(p) }
          /\ \A q \in RunPages \ { p } : call.lookups[q] = 0

\* the pages a step created or changed
PagesTouched ==
    { title \in DOMAIN pages' : title \notin DOMAIN pages \/ pages'[title] # pages[title] }

\* the title begins with the segment pagePrefix and goes on after it
UnderPrefix(title, pagePrefix) == Len(title) >= 2 /\ Head(title) = pagePrefix

\* C37: a writeBlocks run creates, updates and deletes blocks only on pages whose title
\* starts with the prefix; every page outside the prefix, and every block on it, is after
\* the run as it was before.
C37_WritesStayUnderPrefix ==
    [][call'.fn = "writeBlocks" =>
         /\ \A title \in PagesTouched : UnderPrefix(title, settings.pagePrefix)
         /\ \A title \in DOMAIN pages :
               ~UnderPrefix(title, settings.pagePrefix) =>
                   title \in DOMAIN pages' /\ pages'[title] = pages[title]]_vars

\* a run has deleted a record in its sweep while both pages outside the prefix hold their
\* three blocks, among them records with an identity the run did not desire
C37_SweepPassedOutsidePages ==
    /\ call.fn = "writeBlocks"
    /\ mutations.deleteBlock >= 1
    /\ \E i \in 1..Len(call.log) : call.log[i].op = "cleanupObsoletePages"
    /\ \A title \in OutsidePages :
          /\ title \in DOMAIN pages
          /\ Len(pages[title]) = 3
          /\ "b" \in IdsOn(pages[title])
    /\ \A k \in 1..Len(call.calendars[1].events) : call.calendars[1].events[k].uid = "a"

====
